---- MODULE Spec2Model ----
(***************************************************************************)
(* pentagi-taxonomy: the shared schema validator (codegen/shared/          *)
(* validator.py) and the three generator drivers (codegen/{go,python,      *)
(* typescript}/generate.py).                                               *)
(*                                                                         *)
(* YAML values are tagged records.  A Python string is a sequence of       *)
(* tokens: a token stands for a run of characters that the code never      *)
(* splits ("string", "A"), while the characters the code does look at one  *)
(* by one ("[" and "]") are tokens of their own.  A mapping keeps its      *)
(* items in document order, as a Python dict does.                         *)
(***************************************************************************)
EXTENDS Integers, Sequences, FiniteSets, TLC

VARIABLES
    program,      \* which script runs: "go", "python", "typescript", "validator"
    argv,         \* sys.argv[1:], the command-line arguments of the run
    hash_seed,    \* the string-hash seed the interpreter started with
    schema_file,  \* the entities.yml the argument selects (never changes)
    version_yml,  \* state of version.yml, read by the Python driver only
    pc,           \* position of the run inside main
    result,       \* outcome of validate_schema once it has run
    schema,       \* the value validate_schema returned to main
    dirs,         \* output directories created so far
    files,        \* output files written so far, in order
    nodes_data,   \* what prepare_nodes_data returned
    edges_data,   \* what prepare_edges_data returned
    entity_map,   \* the dictionaries of the entity_map.py that was written
    stderr,       \* what the run printed to standard error
    stdout,       \* the result lines the run printed to standard output
    exit_code     \* -1 while running, then the process exit status

vars == <<program, argv, hash_seed, schema_file, version_yml, pc, result, schema,
          dirs, files, nodes_data, edges_data, entity_map, stderr, stdout, exit_code>>

(***************************************************************************)
(* YAML values                                                             *)
(***************************************************************************)
Absent == [kind |-> "absent"]
VNull == [kind |-> "null"]
VStr(s) == [kind |-> "str", s |-> s]
VInt(n) == [kind |-> "int", n |-> n]
VBool(b) == [kind |-> "bool", b |-> b]
VList(items) == [kind |-> "list", items |-> items]
VMap(items) == [kind |-> "map", items |-> items]

\* a one-token string, used for keys and names
K(s) == <<s>>

\* one optional item of a mapping: nothing when the key is left out
Opt(key, v) == IF v = Absent THEN <<>> ELSE << <<K(key), v>> >>

Keys(m) == {m.items[i][1] : i \in 1..Len(m.items)}
Has(m, key) == K(key) \in Keys(m)
Get(m, key) == m.items[CHOOSE i \in 1..Len(m.items) : m.items[i][1] = K(key)][2]

(***************************************************************************)
(* Outcomes.  An error message is its template (rule) and the values the   *)
(* f-string interpolates into it; supported is the list of supported types *)
(* that the two unsupported-type messages end with.                        *)
(***************************************************************************)
SchemaValidationError == "SchemaValidationError"

NoResult == [exc |-> "pending", rule |-> "none", field |-> <<>>, entity |-> <<>>,
             index |-> 0, name |-> <<>>, supported |-> <<>>]
Ok == [exc |-> "none", rule |-> "none", field |-> <<>>, entity |-> <<>>,
       index |-> 0, name |-> <<>>, supported |-> <<>>]
Raise(rule, field, entity, index, name) ==
    [exc |-> SchemaValidationError, rule |-> rule, field |-> field,
     entity |-> entity, index |-> index, name |-> name, supported |-> <<>>]
\* an exception of another class that the validator lets escape
Uncaught(exc) == [exc |-> exc, rule |-> "none", field |-> <<>>, entity |-> <<>>,
                  index |-> 0, name |-> <<>>, supported |-> <<>>]

\* str(v) as an f-string renders it
Show(v) ==
    CASE v.kind = "str" -> v.s
      [] v.kind = "int" -> <<ToString(v.n)>>
      [] v.kind = "null" -> <<"None">>
      [] v.kind = "bool" -> <<ToString(v.b)>>
      [] v.kind = "list" -> <<"[...]">>
      [] OTHER -> <<"{...}">>

(***************************************************************************)
(* String primitives                                                       *)
(***************************************************************************)
\* s.endswith("[]")
EndsWithArray(s) == Len(s) >= 2 /\ s[Len(s) - 1] = "[" /\ s[Len(s)] = "]"

\* s[:-2]
DropLast2(s) == IF Len(s) >= 2 THEN SubSeq(s, 1, Len(s) - 2) ELSE <<>>

\* s.rstrip("[]"): removes every trailing "[" and "]" character
RECURSIVE RStripBrackets(_)
RStripBrackets(s) ==
    IF s # <<>> /\ s[Len(s)] \in {"[", "]"}
    THEN RStripBrackets(SubSeq(s, 1, Len(s) - 1))
    ELSE s

SUPPORTED_PRIMITIVE_TYPES ==
    {K("string"), K("int"), K("float"), K("boolean"), K("timestamp")}

\* sep.join(parts) for a sequence of strings: the separator is a token between them
RECURSIVE Join(_, _)
Join(sep, parts) ==
    IF parts = <<>> THEN <<>>
    ELSE IF Len(parts) = 1 THEN parts[1]
    ELSE parts[1] \o <<sep>> \o Join(sep, Tail(parts))

\* The order in which the set SUPPORTED_PRIMITIVE_TYPES is iterated.  It is that of
\* the strings' hashes, which the interpreter salts with a seed it draws when it
\* starts (PYTHONHASHSEED): these are the orders CPython 3.11 has with seeds 0 to 4.
SetOrder(seed) ==
    CASE seed = 0 -> <<K("string"), K("boolean"), K("timestamp"), K("float"), K("int")>>
      [] seed = 1 -> <<K("float"), K("string"), K("int"), K("timestamp"), K("boolean")>>
      [] seed = 2 -> <<K("boolean"), K("string"), K("int"), K("float"), K("timestamp")>>
      [] seed = 3 -> <<K("string"), K("timestamp"), K("int"), K("boolean"), K("float")>>
      [] OTHER -> <<K("string"), K("timestamp"), K("boolean"), K("float"), K("int")>>

\* an unsupported-type error: its message ends with ', '.join(SUPPORTED_PRIMITIVE_TYPES)
RaiseUnsupported(rule, field, entity, name) ==
    [Raise(rule, field, entity, 0, name) EXCEPT
        !.supported = Join(", ", SetOrder(hash_seed))]

\* ["int", "float", "timestamp"], the list the min/max rule tests against
RANGE_TYPES == {K("int"), K("float"), K("timestamp")}

\* a comparison that is off by one: a >= b where the code has a > b
PyGreaterOrEqual(a, b) ==
    CASE a.kind = "int" /\ b.kind = "int" -> IF a.n >= b.n THEN "true" ELSE "false"
      [] a.kind = "str" /\ b.kind = "str" ->
            IF Len(a.s) >= Len(b.s) /\ SubSeq(a.s, 1, Len(b.s)) = b.s
            THEN "true" ELSE "false"
      [] a.kind = "list" /\ b.kind = "list" ->
            IF Len(a.items) >= Len(b.items) /\ b.items = <<>> THEN "true" ELSE "false"
      [] OTHER -> "TypeError"

\* Python's a > b: "true", "false", or "TypeError" when the operands do not compare.
\* Two strings, or two lists, of the inputs are equal or one extends the other.
PyGreater(a, b) ==
    CASE a.kind = "int" /\ b.kind = "int" -> IF a.n > b.n THEN "true" ELSE "false"
      [] a.kind = "str" /\ b.kind = "str" ->
            IF Len(a.s) > Len(b.s) /\ SubSeq(a.s, 1, Len(b.s)) = b.s
            THEN "true" ELSE "false"
      [] a.kind = "list" /\ b.kind = "list" ->
            IF Len(a.items) > Len(b.items) /\ b.items = <<>> THEN "true" ELSE "false"
      [] OTHER -> "TypeError"

(***************************************************************************)
(* validator.py                                                            *)
(***************************************************************************)
\* a validate_field_type that strips every bracket instead of one "[]" suffix
validate_field_type_rstrip(field_name, field_def, entity_type) ==
    IF ~Has(field_def, "type")
    THEN Raise("MissingFieldType", field_name, entity_type, 0, <<>>)
    ELSE LET field_type == Get(field_def, "type") IN
         IF field_type.kind # "str" THEN Uncaught("AttributeError")
         ELSE IF RStripBrackets(field_type.s) \notin SUPPORTED_PRIMITIVE_TYPES
              THEN RaiseUnsupported("UnsupportedFieldType", field_name, entity_type,
                                    field_type.s)
              ELSE Ok

validate_field_type(field_name, field_def, entity_type) ==
    IF ~Has(field_def, "type")
    THEN Raise("MissingFieldType", field_name, entity_type, 0, <<>>)
    ELSE LET field_type == Get(field_def, "type") IN
         \* .endswith exists on str only
         IF field_type.kind # "str" THEN Uncaught("AttributeError")
         ELSE IF EndsWithArray(field_type.s)
              THEN LET base_type == DropLast2(field_type.s) IN
                   IF base_type \notin SUPPORTED_PRIMITIVE_TYPES
                   THEN RaiseUnsupported("UnsupportedArrayBaseType", field_name,
                                         entity_type, base_type)
                   ELSE Ok
              ELSE IF field_type.s \notin SUPPORTED_PRIMITIVE_TYPES
                   THEN RaiseUnsupported("UnsupportedFieldType", field_name,
                                         entity_type, field_type.s)
                   ELSE Ok

\* a min/max rule whose list of numeric types lacks timestamp
RangeConstraintsNoTimestamp(field_name, field_def, entity_type, field_type, base_type) ==
    IF Has(field_def, "min") \/ Has(field_def, "max")
    THEN IF base_type \notin {K("int"), K("float")}
         THEN Raise("RangeTypeMismatch", field_name, entity_type, 0, field_type)
         ELSE IF Has(field_def, "min") /\ Has(field_def, "max")
              THEN LET gt == PyGreater(Get(field_def, "min"), Get(field_def, "max")) IN
                   CASE gt = "TypeError" -> Uncaught("TypeError")
                     [] gt = "true" ->
                            Raise("RangeOrderViolation", field_name, entity_type, 0,
                                  Show(Get(field_def, "min")) \o Show(Get(field_def, "max")))
                     [] OTHER -> Ok
              ELSE Ok
    ELSE Ok

\* the min/max part of validate_field_constraints, given the base type
RangeConstraints(field_name, field_def, entity_type, field_type, base_type) ==
    IF Has(field_def, "min") \/ Has(field_def, "max")
    THEN IF base_type \notin RANGE_TYPES
         THEN Raise("RangeTypeMismatch", field_name, entity_type, 0, field_type)
         ELSE IF Has(field_def, "min") /\ Has(field_def, "max")
              THEN LET min_val == Get(field_def, "min")
                       max_val == Get(field_def, "max")
                       gt == PyGreater(min_val, max_val) IN
                   CASE gt = "TypeError" -> Uncaught("TypeError")
                     [] gt = "true" ->
                            Raise("RangeOrderViolation", field_name, entity_type, 0,
                                  Show(min_val) \o Show(max_val))
                     [] OTHER -> Ok
              ELSE Ok
    ELSE Ok

\* the regex part, then the min/max part
RegexConstraints(field_name, field_def, entity_type, field_type, base_type) ==
    IF Has(field_def, "regex") /\ base_type # K("string")
    THEN Raise("RegexTypeMismatch", field_name, entity_type, 0, field_type)
    ELSE RangeConstraints(field_name, field_def, entity_type, field_type, base_type)

\* the enum part, then the rest
EnumConstraints(field_name, field_def, entity_type, field_type, base_type) ==
    IF Has(field_def, "enum") /\ base_type # K("string")
    THEN Raise("EnumTypeMismatch", field_name, entity_type, 0, field_type)
    ELSE IF Has(field_def, "enum")
            /\ LET enum_values == Get(field_def, "enum") IN
               enum_values.kind # "list" \/ Len(enum_values.items) = 0
         THEN Raise("EnumNotNonEmptyList", field_name, entity_type, 0, <<>>)
         ELSE RegexConstraints(field_name, field_def, entity_type, field_type, base_type)

\* a validate_field_constraints that takes the type itself for the base type
validate_field_constraints_nostrip(field_name, field_def, entity_type) ==
    LET field_type == IF Has(field_def, "type") THEN Get(field_def, "type")
                      ELSE VStr(<<>>) IN
    IF field_type.kind # "str" THEN Uncaught("AttributeError")
    ELSE EnumConstraints(field_name, field_def, entity_type, field_type.s, field_type.s)

validate_field_constraints(field_name, field_def, entity_type) ==
    LET field_type == IF Has(field_def, "type") THEN Get(field_def, "type")
                      ELSE VStr(<<>>) IN
    \* .rstrip exists on str only
    IF field_type.kind # "str" THEN Uncaught("AttributeError")
    ELSE EnumConstraints(field_name, field_def, entity_type, field_type.s,
                         RStripBrackets(field_type.s))

\* f"node '{node_name}'", f"edge '{edge_name}'"
EntityType(word, entity_name) == <<word, "'">> \o entity_name \o <<"'">>

\* the loop over node_def["fields"].items(), from item i on: the first error ends it
RECURSIVE ValidateFields(_, _, _)
ValidateFields(fields, i, entity_type) ==
    IF i > Len(fields.items) THEN Ok
    ELSE LET field_name == fields.items[i][1]
             field_def == fields.items[i][2] IN
         IF field_def.kind # "map"
         THEN Raise("FieldNotDict", field_name, entity_type, 0, <<>>)
         ELSE LET t == validate_field_type(field_name, field_def, entity_type) IN
              IF t # Ok THEN t
              ELSE LET c == validate_field_constraints(field_name, field_def,
                                                       entity_type) IN
                   IF c # Ok THEN c
                   ELSE ValidateFields(fields, i + 1, entity_type)

\* the body of the loop over one section's items, for one entity
ValidateEntity(word, entity_name, entity_def) ==
    IF entity_def.kind # "map"
    THEN Raise("EntityNotDict", <<>>, EntityType(word, entity_name), 0, <<>>)
    ELSE IF ~Has(entity_def, "fields")
    THEN Raise("MissingFields", <<>>, EntityType(word, entity_name), 0, <<>>)
    ELSE IF Get(entity_def, "fields").kind # "map"
    THEN Raise("FieldsNotDict", <<>>, EntityType(word, entity_name), 0, <<>>)
    ELSE ValidateFields(Get(entity_def, "fields"), 1, EntityType(word, entity_name))

RECURSIVE ValidateEntities(_, _, _)
ValidateEntities(word, section, i) ==
    IF i > Len(section.items) THEN Ok
    ELSE LET r == ValidateEntity(word, section.items[i][1], section.items[i][2]) IN
         IF r # Ok THEN r ELSE ValidateEntities(word, section, i + 1)

\* "Validate nodes section"
ValidateNodes(doc) ==
    IF ~Has(doc, "nodes") THEN Ok
    ELSE IF Get(doc, "nodes").kind # "map"
    THEN Raise("NodesNotDict", <<>>, <<>>, 0, <<>>)
    ELSE ValidateEntities("node", Get(doc, "nodes"), 1)

\* "Validate edges section"
ValidateEdges(doc) ==
    IF ~Has(doc, "edges") THEN Ok
    ELSE IF Get(doc, "edges").kind # "map"
    THEN Raise("EdgesNotDict", <<>>, <<>>, 0, <<>>)
    ELSE ValidateEntities("edge", Get(doc, "edges"), 1)

(***************************************************************************)
(* validate_relationships                                                  *)
(***************************************************************************)
\* Python's `key in v`: "true", "false" or "TypeError"
PyIn(key, v) ==
    CASE v.kind = "map" -> IF Has(v, key) THEN "true" ELSE "false"
      [] v.kind = "str" ->       \* substring test
            IF \E i \in 1..Len(v.s) : v.s[i] = key THEN "true" ELSE "false"
      [] v.kind = "list" ->      \* element test
            IF \E i \in 1..Len(v.items) : v.items[i] = VStr(K(key))
            THEN "true" ELSE "false"
      [] OTHER -> "TypeError"    \* None, int, bool: not iterable

\* `for x in v` works on a list, a dict (its keys) and a str (its characters)
Iterable(v) == v.kind \in {"list", "map", "str"}

\* what `for x in v` yields for an iterable v
PyIter(v) ==
    CASE v.kind = "list" -> v.items
      [] v.kind = "map" -> [i \in 1..Len(v.items) |-> VStr(v.items[i][1])]
      [] OTHER -> [i \in 1..Len(v.s) |-> VStr(<<v.s[i]>>)]

\* a list or a dict cannot be looked up in a set
Hashable(v) == v.kind \notin {"list", "map"}

\* v in names, for a hashable v and a set of key strings
InNames(v, names) == v.kind = "str" /\ v.s \in names

\* the loop over rel_edges, from element j on
RECURSIVE CheckRelEdges(_, _, _, _)
CheckRelEdges(rel_edges, j, edges, i) ==
    IF j > Len(rel_edges) THEN Ok
    ELSE LET edge == rel_edges[j] IN
         IF ~Hashable(edge) THEN Uncaught("TypeError")
         ELSE IF ~InNames(edge, edges)
         THEN Raise("UndefinedEdge", <<>>, <<>>, i, Show(edge))
         ELSE CheckRelEdges(rel_edges, j + 1, edges, i)

\* a loop body that reports the relationship's 0-based position (i where the code has i+1)
CheckRelationshipZeroBased(rel, i, nodes, edges) ==
    LET hasSource == PyIn("source", rel)
        hasTarget == PyIn("target", rel)
        hasEdges == PyIn("edges", rel) IN
    IF hasSource = "TypeError" THEN Uncaught("TypeError")
    ELSE IF hasSource = "false"
    THEN Raise("MissingSource", <<>>, <<>>, i - 1, <<>>)
    ELSE IF hasTarget = "false"
    THEN Raise("MissingTarget", <<>>, <<>>, i - 1, <<>>)
    ELSE IF hasEdges = "false"
    THEN Raise("MissingEdges", <<>>, <<>>, i - 1, <<>>)
    \* rel["source"] on a str or a list: indices must be integers
    ELSE IF rel.kind # "map" THEN Uncaught("TypeError")
    ELSE LET source == Get(rel, "source")
             target == Get(rel, "target")
             rel_edges == Get(rel, "edges") IN
         IF ~Hashable(source) THEN Uncaught("TypeError")
         ELSE IF ~InNames(source, nodes)
         THEN Raise("UndefinedSourceNode", <<>>, <<>>, i - 1, Show(source))
         ELSE IF ~Hashable(target) THEN Uncaught("TypeError")
         ELSE IF ~InNames(target, nodes)
         THEN Raise("UndefinedTargetNode", <<>>, <<>>, i - 1, Show(target))
         ELSE IF rel_edges.kind # "list" \/ Len(rel_edges.items) = 0
         THEN Raise("EdgesNotNonEmptyList", <<>>, <<>>, i - 1, <<>>)
         ELSE CheckRelEdges(rel_edges.items, 1, edges, i - 1)

\* the body of the loop of validate_relationships for rel, the i-th entry (1-based)
CheckRelationship(rel, i, nodes, edges) ==
    LET hasSource == PyIn("source", rel)
        hasTarget == PyIn("target", rel)
        hasEdges == PyIn("edges", rel) IN
    IF hasSource = "TypeError" THEN Uncaught("TypeError")
    ELSE IF hasSource = "false"
    THEN Raise("MissingSource", <<>>, <<>>, i, <<>>)
    ELSE IF hasTarget = "false"
    THEN Raise("MissingTarget", <<>>, <<>>, i, <<>>)
    ELSE IF hasEdges = "false"
    THEN Raise("MissingEdges", <<>>, <<>>, i, <<>>)
    \* rel["source"] on a str or a list: indices must be integers
    ELSE IF rel.kind # "map" THEN Uncaught("TypeError")
    ELSE LET source == Get(rel, "source")
             target == Get(rel, "target")
             rel_edges == Get(rel, "edges") IN
         IF ~Hashable(source) THEN Uncaught("TypeError")
         ELSE IF ~InNames(source, nodes)
         THEN Raise("UndefinedSourceNode", <<>>, <<>>, i, Show(source))
         ELSE IF ~Hashable(target) THEN Uncaught("TypeError")
         ELSE IF ~InNames(target, nodes)
         THEN Raise("UndefinedTargetNode", <<>>, <<>>, i, Show(target))
         ELSE IF rel_edges.kind # "list" \/ Len(rel_edges.items) = 0
         THEN Raise("EdgesNotNonEmptyList", <<>>, <<>>, i, <<>>)
         ELSE CheckRelEdges(rel_edges.items, 1, edges, i)

RECURSIVE CheckRelationships(_, _, _, _)
CheckRelationships(rels, i, nodes, edges) ==
    IF i > Len(rels) THEN Ok
    ELSE LET r == CheckRelationship(rels[i], i, nodes, edges) IN
         IF r # Ok THEN r ELSE CheckRelationships(rels, i + 1, nodes, edges)

validate_relationships(doc) ==
    IF ~Has(doc, "relationships") THEN Ok
    ELSE LET nodes == IF Has(doc, "nodes") THEN Keys(Get(doc, "nodes")) ELSE {}
             edges == IF Has(doc, "edges") THEN Keys(Get(doc, "edges")) ELSE {}
             relationships == Get(doc, "relationships") IN
         IF ~Iterable(relationships) THEN Uncaught("TypeError")
         ELSE CheckRelationships(PyIter(relationships), 1, nodes, edges)

(***************************************************************************)
(* validate_schema.  The file is missing, is not YAML, or parses to a      *)
(* value.                                                                  *)
(***************************************************************************)
FileMissing == [state |-> "missing", doc |-> Absent]
FileNotYaml == [state |-> "not_yaml", doc |-> Absent]
Parsed(doc) == [state |-> "parsed", doc |-> doc]

\* the version checks: present, and an int (a Python bool is an int)
ValidateVersion(doc) ==
    IF ~Has(doc, "version")
    THEN Raise("MissingVersion", <<>>, <<>>, 0, <<>>)
    ELSE IF Get(doc, "version").kind \notin {"int", "bool"}
    THEN Raise("VersionNotInt", <<>>, <<>>, 0, <<>>)
    ELSE Ok

\* a validate_schema that looks at the version after the sections
validate_schema_version_last(file) ==
    IF file.state = "missing" THEN Raise("FileNotFound", <<>>, <<>>, 0, <<>>)
    ELSE IF file.state = "not_yaml" THEN Raise("InvalidYaml", <<>>, <<>>, 0, <<>>)
    ELSE IF file.doc.kind # "map" THEN Raise("NotADictionary", <<>>, <<>>, 0, <<>>)
    ELSE LET n == ValidateNodes(file.doc) IN
         IF n # Ok THEN n
         ELSE LET e == ValidateEdges(file.doc) IN
              IF e # Ok THEN e
              ELSE LET v == ValidateVersion(file.doc) IN
                   IF v # Ok THEN v ELSE validate_relationships(file.doc)

validate_schema(file) ==
    IF file.state = "missing" THEN Raise("FileNotFound", <<>>, <<>>, 0, <<>>)
    ELSE IF file.state = "not_yaml" THEN Raise("InvalidYaml", <<>>, <<>>, 0, <<>>)
    ELSE IF file.doc.kind # "map" THEN Raise("NotADictionary", <<>>, <<>>, 0, <<>>)
    ELSE LET v == ValidateVersion(file.doc) IN
         IF v # Ok THEN v
         ELSE LET n == ValidateNodes(file.doc) IN
              IF n # Ok THEN n
              ELSE LET e == ValidateEdges(file.doc) IN
                   IF e # Ok THEN e
                   ELSE validate_relationships(file.doc)

(***************************************************************************)
(* Text the generators build from schema values                            *)
(***************************************************************************)
\* bool(v): what `if description:` tests
Truthy(v) ==
    CASE v.kind = "str" -> v.s # <<>>
      [] v.kind = "int" -> v.n # 0
      [] v.kind = "bool" -> v.b
      [] v.kind = "list" -> v.items # <<>>
      [] v.kind = "map" -> v.items # <<>>
      [] OTHER -> FALSE

\* repr(v): a string gets quotes around it
Repr(v) == IF v.kind = "str" THEN <<"'">> \o v.s \o <<"'">> ELSE Show(v)

\* json.dumps(v): a string gets double quotes, true, false and null are lower case
JsonDumps(v) ==
    CASE v.kind = "str" -> <<"\"">> \o v.s \o <<"\"">>
      [] v.kind = "bool" -> IF v.b THEN <<"true">> ELSE <<"false">>
      [] v.kind = "null" -> <<"null">>
      [] OTHER -> Show(v)

\* d.get(key, default)
GetOr(m, key, default) == IF Has(m, key) THEN Get(m, key) ELSE default

\* the letters the names of the model are written with, lower case and upper case
Letters ==
    {<<"a", "A">>, <<"b", "B">>, <<"e", "E">>, <<"f", "F">>, <<"g", "G">>}

\* c.upper() and c.lower() of one character
Upper(c) == IF \E p \in Letters : p[1] = c
            THEN (CHOOSE p \in Letters : p[1] = c)[2] ELSE c
Lower(c) == IF \E p \in Letters : p[2] = c
            THEN (CHOOSE p \in Letters : p[2] = c)[1] ELSE c

\* word.capitalize(): the first character upper case, the others lower case
Capitalize(word) ==
    [i \in 1..Len(word) |-> IF i = 1 THEN Upper(word[i]) ELSE Lower(word[i])]

\* s.split('_'): the pieces between the underscores, empty ones included
RECURSIVE SplitUnderscore(_)
SplitUnderscore(s) ==
    IF \A i \in 1..Len(s) : s[i] # "_" THEN <<s>>
    ELSE LET i == CHOOSE k \in 1..Len(s) :
                     s[k] = "_" /\ \A m \in 1..(k - 1) : s[m] # "_" IN
         <<SubSeq(s, 1, i - 1)>> \o SplitUnderscore(SubSeq(s, i + 1, Len(s)))

\* ''.join(parts)
RECURSIVE Concat(_)
Concat(parts) == IF parts = <<>> THEN <<>> ELSE parts[1] \o Concat(Tail(parts))

\* ''.join(word.capitalize() for word in name.split('_'))
to_pascal_case(snake_case) ==
    LET words == SplitUnderscore(snake_case) IN
    Concat([i \in 1..Len(words) |-> Capitalize(words[i])])

(***************************************************************************)
(* codegen/python/generate.py: the field mapper                            *)
(***************************************************************************)
RECURSIVE python_type_from_yaml(_)
python_type_from_yaml(yaml_type) ==
    IF EndsWithArray(yaml_type)
    THEN <<"list[">> \o python_type_from_yaml(DropLast2(yaml_type)) \o <<"]">>
    ELSE CASE yaml_type = K("string") -> <<"str">>
           [] yaml_type = K("int") -> <<"int">>
           [] yaml_type = K("float") -> <<"float">>
           [] yaml_type = K("boolean") -> <<"bool">>
           [] yaml_type = K("timestamp") -> <<"float">>
           [] OTHER -> <<"str">>

\* a mapper that raised exc has no other result
Crashed(exc) == [exc |-> exc]

\* Field arguments that make the field required: "..." where the code has "None"
field_args_required == << <<"...">> >>

\* field_args = ["None"]: the first argument of Field is the default
field_args_initial == << <<"None">> >>

\* bounds of which the lower one is exclusive: gt where the code has ge
RangeKwargsExclusive(field_def) ==
    (IF Has(field_def, "min")
     THEN << <<"gt=">> \o Show(Get(field_def, "min")) >> ELSE <<>>)
    \o (IF Has(field_def, "max")
        THEN << <<"le=">> \o Show(Get(field_def, "max")) >> ELSE <<>>)

\* "Add validation constraints": ge from min, le from max
RangeKwargs(field_def) ==
    (IF Has(field_def, "min")
     THEN << <<"ge=">> \o Show(Get(field_def, "min")) >> ELSE <<>>)
    \o (IF Has(field_def, "max")
        THEN << <<"le=">> \o Show(Get(field_def, "max")) >> ELSE <<>>)

\* f"Literal[{enum_str}]" for the elements that iterating enum_values yields
LiteralType(enum_values) ==
    <<"Literal[">>
    \o Join(", ", [i \in 1..Len(enum_values) |-> Repr(enum_values[i])])
    \o <<"]">>

prepare_field_for_pydantic(field_name, field_def) ==
    LET yaml_type == GetOr(field_def, "type", VStr(K("string")))
        description == GetOr(field_def, "description", VStr(<<>>))
        field_kwargs ==
            (IF Truthy(description)
             THEN << <<"description=">> \o Repr(description) >> ELSE <<>>)
            \o RangeKwargs(field_def) IN
    \* .endswith exists on str only
    IF yaml_type.kind # "str" THEN Crashed("AttributeError")
    ELSE IF Has(field_def, "enum") /\ ~Iterable(Get(field_def, "enum"))
    THEN Crashed("TypeError")
    ELSE [exc |-> "none",
          python_type |->
              IF Has(field_def, "enum")
              THEN LiteralType(PyIter(Get(field_def, "enum")))
              ELSE python_type_from_yaml(yaml_type.s),
          field_args |-> Join(", ", field_args_initial \o field_kwargs),
          description |-> description]

(***************************************************************************)
(* codegen/go/generate.py: the field mapper                                *)
(***************************************************************************)
RECURSIVE go_type_from_yaml(_)
go_type_from_yaml(yaml_type) ==
    IF EndsWithArray(yaml_type)
    THEN <<"*[]">> \o go_type_from_yaml(DropLast2(yaml_type))
    ELSE CASE yaml_type = K("string") -> <<"*string">>
           [] yaml_type = K("int") -> <<"*int">>
           [] yaml_type = K("float") -> <<"*float64">>
           [] yaml_type = K("boolean") -> <<"*bool">>
           [] yaml_type = K("timestamp") -> <<"*float64">>
           [] OTHER -> <<"*string">>

\* the two patterns is_ipv4_regex looks for, each a token of a regex
ipv4_patterns ==
    {"^(?:[0-9]{1,3}\\.){3}[0-9]{1,3}$", "^(?:[0-9]+\\.){3}[0-9]+$"}

\* regex.replace("\\\\", "\\"): a token written with doubled backslashes becomes
\* the token with single ones
Unescape(token) ==
    CASE token = "^(?:[0-9]{1,3}\\\\.){3}[0-9]{1,3}$" -> "^(?:[0-9]{1,3}\\.){3}[0-9]{1,3}$"
      [] token = "^(?:[0-9]+\\\\.){3}[0-9]+$" -> "^(?:[0-9]+\\.){3}[0-9]+$"
      [] OTHER -> token

\* any(pattern in normalized for pattern in ipv4_patterns)
is_ipv4_regex(regex) ==
    \E i \in 1..Len(regex) : Unescape(regex[i]) \in ipv4_patterns

\* token.lower(), for the tokens that spell "email"
LowerToken(token) == IF token \in {"EMAIL", "Email"} THEN "email" ELSE token

\* a mapper that looks for the URL prefix before it looks for "email"
RegexTagsUrlFirst(regex) ==
    IF is_ipv4_regex(regex) THEN << <<"ipv4">> >>
    ELSE IF regex # <<>> /\ regex[1] = "^https?://" THEN << <<"url">> >>
    ELSE IF \E i \in 1..Len(regex) : LowerToken(regex[i]) = "email"
    THEN << <<"email">> >>
    ELSE <<>>

\* the tag the regex gives, if any
RegexTags(regex) ==
    IF is_ipv4_regex(regex) THEN << <<"ipv4">> >>
    ELSE IF \E i \in 1..Len(regex) : LowerToken(regex[i]) = "email"
    THEN << <<"email">> >>
    ELSE IF regex # <<>> /\ regex[1] = "^https?://" THEN << <<"url">> >>
    ELSE <<>>

\* min= and max=
RangeTags(field_def) ==
    (IF Has(field_def, "min")
     THEN << <<"min=">> \o Show(Get(field_def, "min")) >> ELSE <<>>)
    \o (IF Has(field_def, "max")
        THEN << <<"max=">> \o Show(Get(field_def, "max")) >> ELSE <<>>)

\* the result is the tag string, or the exception that ends the mapper
validation_tag_from_field(field_def) ==
    LET yaml_type == GetOr(field_def, "type", VStr(K("string")))
        enum_values == Get(field_def, "enum")
        regex == Get(field_def, "regex") IN
    \* .rstrip exists on str only
    IF yaml_type.kind # "str" THEN Crashed("AttributeError")
    \* " ".join wants an iterable of str
    ELSE IF Has(field_def, "enum")
            /\ (~Iterable(enum_values)
                \/ \E i \in 1..Len(PyIter(enum_values)) :
                       PyIter(enum_values)[i].kind # "str")
    THEN Crashed("TypeError")
    \* .replace exists on str only
    ELSE IF Has(field_def, "regex") /\ ~Has(field_def, "enum") /\ regex.kind # "str"
    THEN Crashed("AttributeError")
    ELSE LET tags ==
                 << <<"omitempty">> >>
                 \o (IF Has(field_def, "enum")
                     THEN << <<"oneof=">>
                             \o Join(" ", [i \in 1..Len(PyIter(enum_values)) |->
                                              PyIter(enum_values)[i].s]) >>
                     ELSE <<>>)
                 \o (IF Has(field_def, "regex") /\ ~Has(field_def, "enum")
                     THEN RegexTags(regex.s) ELSE <<>>)
                 \o RangeTags(field_def) IN
         [exc |-> "none",
          tag |-> IF Len(tags) > 1
                  THEN <<"validate:\"">> \o Join(",", tags) \o <<"\"">>
                  ELSE <<>>]

\* the character that opens and closes a Go struct tag (a grave accent)
BACKQUOTE == "(grave accent)"

prepare_field_for_go(field_name, field_def) ==
    LET yaml_type == GetOr(field_def, "type", VStr(K("string")))
        json_tag == <<"json:\"">> \o field_name \o <<",omitempty\"">>
        validate_tag == validation_tag_from_field(field_def) IN
    IF yaml_type.kind # "str" THEN Crashed("AttributeError")
    ELSE IF validate_tag.exc # "none" THEN validate_tag
    ELSE [exc |-> "none",
          go_name |-> to_pascal_case(field_name),
          go_type |-> go_type_from_yaml(yaml_type.s),
          struct_tag |-> IF validate_tag.tag # <<>>
                         THEN <<BACKQUOTE>> \o json_tag \o <<" ">> \o validate_tag.tag
                              \o <<BACKQUOTE>>
                         ELSE <<BACKQUOTE>> \o json_tag \o <<BACKQUOTE>>,
          description |-> GetOr(field_def, "description", VStr(<<>>))]

(***************************************************************************)
(* codegen/typescript/generate.py: the field mapper                        *)
(***************************************************************************)
\* the schema of a field of type yaml_type that has the other keys of field_def
RECURSIVE ZodSchema(_, _)
ZodSchema(yaml_type, field_def) ==
    IF EndsWithArray(yaml_type)
    THEN <<"z.array(">> \o ZodSchema(DropLast2(yaml_type), field_def) \o <<")">>
    ELSE LET enum_values == PyIter(Get(field_def, "enum")) IN
         (IF Has(field_def, "enum")
          THEN <<"z.enum([">>
               \o Join(", ", [i \in 1..Len(enum_values) |-> JsonDumps(enum_values[i])])
               \o <<"])">>
          ELSE IF Has(field_def, "regex")
          THEN <<"z.string().regex(/">> \o Show(Get(field_def, "regex")) \o <<"/)">>
          ELSE CASE yaml_type = K("string") -> <<"z.string()">>
                 [] yaml_type = K("int") -> <<"z.number().int()">>
                 [] yaml_type = K("float") -> <<"z.number()">>
                 [] yaml_type = K("boolean") -> <<"z.boolean()">>
                 [] yaml_type = K("timestamp") -> <<"z.number()">>
                 [] OTHER -> <<"z.string()">>)
         \o (IF Has(field_def, "min")
             THEN <<".min(">> \o Show(Get(field_def, "min")) \o <<")">> ELSE <<>>)
         \o (IF Has(field_def, "max")
             THEN <<".max(">> \o Show(Get(field_def, "max")) \o <<")">> ELSE <<>>)

zod_schema_from_field(field_def) ==
    LET yaml_type == GetOr(field_def, "type", VStr(K("string"))) IN
    \* .endswith exists on str only
    IF yaml_type.kind # "str" THEN Crashed("AttributeError")
    ELSE IF Has(field_def, "enum") /\ ~Iterable(Get(field_def, "enum"))
    THEN Crashed("TypeError")
    ELSE [exc |-> "none", schema |-> ZodSchema(yaml_type.s, field_def)]

prepare_field_for_zod(field_name, field_def) ==
    LET zod_schema == zod_schema_from_field(field_def) IN
    IF zod_schema.exc # "none" THEN zod_schema
    ELSE [exc |-> "none",
          zod_schema |-> zod_schema.schema,
          description |-> GetOr(field_def, "description", VStr(<<>>))]

(***************************************************************************)
(* prepare_nodes_data and prepare_edges_data, the same in the three        *)
(* generators but for the field mapper they call                           *)
(***************************************************************************)
PrepareField(prog, field_name, field_def) ==
    CASE prog = "go" -> prepare_field_for_go(field_name, field_def)
      [] prog = "python" -> prepare_field_for_pydantic(field_name, field_def)
      [] OTHER -> prepare_field_for_zod(field_name, field_def)

\* the inner loop: fields[field_name] = prepare_field(field_name, field_def)
PrepareFields(prog, entity_def) ==
    LET fields == GetOr(entity_def, "fields", VMap(<<>>)).items IN
    [j \in 1..Len(fields) |->
        <<fields[j][1], PrepareField(prog, fields[j][1], fields[j][2])>>]

\* the exception the inner loop ends with, "none" when it completes
FieldsCrash(fields) ==
    IF \E j \in 1..Len(fields) : fields[j][2].exc # "none"
    THEN fields[CHOOSE j \in 1..Len(fields) :
                    /\ fields[j][2].exc # "none"
                    /\ \A m \in 1..(j - 1) : fields[m][2].exc = "none"][2].exc
    ELSE "none"

\* the result of a loop over entities: the data, or the first exception
Prepared(data) ==
    IF \E i \in 1..Len(data) : FieldsCrash(data[i][2].fields) # "none"
    THEN Crashed(FieldsCrash(
             data[CHOOSE i \in 1..Len(data) :
                      /\ FieldsCrash(data[i][2].fields) # "none"
                      /\ \A m \in 1..(i - 1) :
                            FieldsCrash(data[m][2].fields) = "none"][2].fields))
    ELSE [exc |-> "none", data |-> data]

prepare_nodes_data(prog, sch) ==
    LET nodes == GetOr(sch, "nodes", VMap(<<>>)).items IN
    Prepared([i \in 1..Len(nodes) |->
                 <<nodes[i][1],
                   [class_name |-> <<>>,
                    description |-> GetOr(nodes[i][2], "description", VStr(<<>>)),
                    fields |-> PrepareFields(prog, nodes[i][2])]>>])

prepare_edges_data(prog, sch) ==
    LET edges == GetOr(sch, "edges", VMap(<<>>)).items IN
    Prepared([i \in 1..Len(edges) |->
                 <<edges[i][1],
                   [class_name |-> to_pascal_case(edges[i][1]),
                    description |-> GetOr(edges[i][2], "description", VStr(<<>>)),
                    fields |-> PrepareFields(prog, edges[i][2])]>>])

(***************************************************************************)
(* entity_map.py, as the template entity_map.py.j2 renders it: a line for  *)
(* every node in ENTITY_TYPES, a line for every edge in EDGE_TYPES and a   *)
(* line for every relationship in EDGE_TYPE_MAP.  Each dictionary is the   *)
(* sequence of the <<key, value>> lines of its display.                    *)
(***************************************************************************)
NoEntityMap == [ENTITY_TYPES |-> <<>>, EDGE_TYPES |-> <<>>, EDGE_TYPE_MAP |-> <<>>]

RenderEntityMap(nodes, edges, relationships) ==
    LET rels == IF Iterable(relationships) THEN PyIter(relationships) ELSE <<>> IN
    [ENTITY_TYPES |-> [i \in 1..Len(nodes) |-> <<nodes[i][1], nodes[i][1]>>],
     EDGE_TYPES |-> [i \in 1..Len(edges) |-> <<edges[i][1], edges[i][2].class_name>>],
     EDGE_TYPE_MAP |->
         [i \in 1..Len(rels) |->
             << <<Get(rels[i], "source").s, Get(rels[i], "target").s>>,
                [j \in 1..Len(Get(rels[i], "edges").items) |->
                    Get(rels[i], "edges").items[j].s] >>]]

\* the keys of a dictionary display
DictKeys(display) == {display[i][1] : i \in 1..Len(display)}

\* d[key]: when the display repeats a key, the last line is the one that counts
DictGet(display, key) ==
    display[CHOOSE i \in 1..Len(display) :
                /\ display[i][1] = key
                /\ \A m \in (i + 1)..Len(display) : display[m][1] # key][2]

(***************************************************************************)
(* The runs: main of each generate.py, and the validator's own __main__.   *)
(***************************************************************************)
Generators == {"go", "python", "typescript"}

\* the directories mkdir(parents=True, exist_ok=True) creates
OutputDirs(prog) ==
    CASE prog = "go" -> {"go", "go/entities"}
      [] prog = "python" -> {"python", "python/pentagi_taxonomy"}
      [] OTHER -> {"typescript", "typescript/src"}

\* the files main writes, in the order it writes them
OutputFiles(prog) ==
    CASE prog = "go" -> <<"go/go.mod", "go/entities/entities.go",
                          "go/entities/validators.go">>
      [] prog = "python" -> <<"python/pentagi_taxonomy/__init__.py",
                              "python/pentagi_taxonomy/nodes.py",
                              "python/pentagi_taxonomy/edges.py",
                              "python/pentagi_taxonomy/entity_map.py">>
      [] OTHER -> <<"typescript/package.json", "typescript/tsconfig.json",
                    "typescript/src/schemas.ts", "typescript/src/index.ts">>

\* where main goes once validate_schema has returned
AfterValidation(prog) ==
    CASE prog = "validator" -> "report"
      [] prog = "python" -> "read_version"
      [] OTHER -> "mkdir"

\* int(version_arg) succeeds on a decimal literal
IsIntegerLiteral(arg) == arg \in {"0", "1", "2", "3", "4", "5", "6", "7", "8", "9"}

\* if len(sys.argv) != 2: print the usage text, sys.exit(1)
UsageExit ==
    /\ pc = "args"
    /\ Len(argv) # 1
    /\ stdout' = Append(stdout, "usage")
    /\ exit_code' = 1
    /\ pc' = "exited"
    /\ UNCHANGED <<program, argv, hash_seed, schema_file, version_yml, nodes_data,
                   edges_data, entity_map, result, schema, dirs, files, stderr>>

\* a driver that takes its first argument and ignores the others
ReadArgsIgnoresExtra ==
    /\ pc = "args"
    /\ Len(argv) >= 1
    /\ pc' = "validate"
    /\ UNCHANGED <<program, argv, hash_seed, schema_file, version_yml, nodes_data,
                   edges_data, entity_map, result, schema, dirs, files, stderr, stdout,
                   exit_code>>

\* one argument: the paths are built from it
ReadArgs ==
    /\ pc = "args"
    /\ Len(argv) = 1
    /\ pc' = "validate"
    /\ UNCHANGED <<program, argv, hash_seed, schema_file, version_yml, nodes_data,
                   edges_data, entity_map, result, schema, dirs, files, stderr, stdout,
                   exit_code>>

\* a validator that fills in the default of an absent relationships section
ValidateOkFillsDefaults ==
    /\ pc = "validate"
    /\ validate_schema(schema_file) = Ok
    /\ result' = Ok
    /\ schema' = IF Has(schema_file.doc, "relationships") THEN schema_file.doc
                 ELSE VMap(Append(schema_file.doc.items,
                                  <<K("relationships"), VList(<<>>)>>))
    /\ pc' = AfterValidation(program)
    /\ UNCHANGED <<program, argv, hash_seed, schema_file, version_yml, nodes_data,
                   edges_data, entity_map, dirs, files, stderr, stdout,
                   exit_code>>

\* schema = validate_schema(schema_path) returns
ValidateOk ==
    /\ pc = "validate"
    /\ validate_schema(schema_file) = Ok
    /\ result' = Ok
    /\ schema' = schema_file.doc
    /\ pc' = AfterValidation(program)
    /\ UNCHANGED <<program, argv, hash_seed, schema_file, version_yml, nodes_data,
                   edges_data, entity_map, dirs, files, stderr, stdout,
                   exit_code>>

\* except SchemaValidationError as e: print to stderr, sys.exit(1)
ValidateFail ==
    /\ pc = "validate"
    /\ validate_schema(schema_file).exc = SchemaValidationError
    /\ result' = validate_schema(schema_file)
    /\ stderr' = Append(stderr, validate_schema(schema_file))
    /\ exit_code' = 1
    /\ pc' = "exited"
    /\ UNCHANGED <<program, argv, hash_seed, schema_file, version_yml, nodes_data,
                   edges_data, entity_map, schema, dirs, files, stdout>>

\* any other exception passes the except clause: traceback, exit status 1
ValidateCrash ==
    /\ pc = "validate"
    /\ validate_schema(schema_file).exc \notin {"none", SchemaValidationError}
    /\ result' = validate_schema(schema_file)
    /\ stderr' = Append(stderr, validate_schema(schema_file))
    /\ exit_code' = 1
    /\ pc' = "exited"
    /\ UNCHANGED <<program, argv, hash_seed, schema_file, version_yml, nodes_data,
                   edges_data, entity_map, schema, dirs, files, stdout>>

\* Python driver only: open version.yml and read the global version
ReadVersionYml ==
    /\ pc = "read_version"
    /\ version_yml = "present"
    /\ IsIntegerLiteral(argv[1])
    /\ pc' = "mkdir"
    /\ UNCHANGED <<program, argv, hash_seed, schema_file, version_yml, nodes_data,
                   edges_data, entity_map, result, schema, dirs, files,
                   stderr, stdout, exit_code>>

\* open() raises when version.yml is not there
ReadVersionYmlFail ==
    /\ pc = "read_version"
    /\ version_yml = "missing"
    /\ stderr' = Append(stderr, Uncaught("FileNotFoundError"))
    /\ exit_code' = 1
    /\ pc' = "exited"
    /\ UNCHANGED <<program, argv, hash_seed, schema_file, version_yml, nodes_data,
                   edges_data, entity_map, result, schema, dirs, files,
                   stdout>>

\* .get("version", int(version_arg)): the default is computed whether it is needed
\* or not, and int raises ValueError on an argument that is not a number
VersionArgError ==
    /\ \/ pc = "read_version" /\ version_yml = "present"
       \/ pc = "mkdir" /\ program # "python"
    /\ ~IsIntegerLiteral(argv[1])
    /\ stderr' = Append(stderr, Uncaught("ValueError"))
    /\ exit_code' = 1
    /\ pc' = "exited"
    /\ UNCHANGED <<program, argv, hash_seed, schema_file, version_yml, nodes_data,
                   edges_data, entity_map, result, schema, dirs, files, stdout>>

\* a driver that creates its output directory before it validates
MakeOutputDirBeforeValidation ==
    /\ pc \in {"validate", "mkdir"}
    /\ dirs' = dirs \cup OutputDirs(program)
    /\ pc' = IF pc = "mkdir" THEN "prepare" ELSE pc
    /\ UNCHANGED <<program, argv, hash_seed, schema_file, version_yml, nodes_data,
                   edges_data, entity_map, result, schema, files, stderr,
                   stdout, exit_code>>

\* "Create output directory"
MakeOutputDir ==
    /\ pc = "mkdir"
    /\ program = "python" \/ IsIntegerLiteral(argv[1])
    /\ dirs' = dirs \cup OutputDirs(program)
    /\ pc' = "prepare"
    /\ UNCHANGED <<program, argv, hash_seed, schema_file, version_yml, nodes_data,
                   edges_data, entity_map, result, schema, files, stderr,
                   stdout, exit_code>>

\* set up the template environment, prepare_nodes_data, prepare_edges_data
PrepareData ==
    /\ pc = "prepare"
    /\ prepare_nodes_data(program, schema).exc = "none"
    /\ prepare_edges_data(program, schema).exc = "none"
    /\ nodes_data' = prepare_nodes_data(program, schema).data
    /\ edges_data' = prepare_edges_data(program, schema).data
    /\ pc' = "write"
    /\ UNCHANGED <<program, argv, hash_seed, schema_file, version_yml, result, schema,
                   dirs, files, entity_map, stderr, stdout, exit_code>>

\* a field mapper raises: traceback, exit status 1, the directories stay
PrepareDataCrash ==
    /\ pc = "prepare"
    /\ \/ prepare_nodes_data(program, schema).exc # "none"
       \/ prepare_edges_data(program, schema).exc # "none"
    /\ stderr' = Append(stderr,
                        IF prepare_nodes_data(program, schema).exc # "none"
                        THEN Uncaught(prepare_nodes_data(program, schema).exc)
                        ELSE Uncaught(prepare_edges_data(program, schema).exc))
    /\ exit_code' = 1
    /\ pc' = "exited"
    /\ UNCHANGED <<program, argv, hash_seed, schema_file, version_yml, nodes_data,
                   edges_data, entity_map, result, schema, dirs, files, stdout>>

\* render the next template and write_text it
WriteFile ==
    /\ pc = "write"
    /\ Len(files) < Len(OutputFiles(program))
    /\ files' = Append(files, OutputFiles(program)[Len(files) + 1])
    /\ entity_map' =
          IF OutputFiles(program)[Len(files) + 1] = "python/pentagi_taxonomy/entity_map.py"
          THEN RenderEntityMap(nodes_data, edges_data,
                               GetOr(schema, "relationships", VList(<<>>)))
          ELSE entity_map
    /\ pc' = IF Len(files') = Len(OutputFiles(program)) THEN "report" ELSE "write"
    /\ UNCHANGED <<program, argv, hash_seed, schema_file, version_yml, result, schema,
                   dirs, nodes_data, edges_data, stderr, stdout, exit_code>>

\* the closing prints; main returns and the process ends with status 0
Finish ==
    /\ pc = "report"
    /\ stdout' = Append(stdout, "complete")
    /\ exit_code' = 0
    /\ pc' = "exited"
    /\ UNCHANGED <<program, argv, hash_seed, schema_file, version_yml, nodes_data,
                   edges_data, entity_map, result, schema, dirs, files,
                   stderr>>

(***************************************************************************)
(* Input documents                                                         *)
(***************************************************************************)
MaxArrayDepth == 2   \* most "[]" suffixes on a field type
MaxNum == 1          \* min and max range over 0..MaxNum
MaxRels == 2         \* most entries of a relationships list
MaxVersion == 2      \* version ranges over -MaxVersion..MaxVersion
MaxSeed == 1         \* hash seeds range over 0..MaxSeed
MaxArgs == 2         \* most command-line arguments of a run
MaxNameLen == 2      \* most characters of an edge name

Doc(version, nodes, edges, relationships) ==
    VMap(Opt("version", version) \o Opt("nodes", nodes) \o Opt("edges", edges)
         \o Opt("relationships", relationships))

FieldDef(type, enum, regex, min, max) ==
    VMap(Opt("type", type) \o Opt("enum", enum) \o Opt("regex", regex)
         \o Opt("min", min) \o Opt("max", max))

\* a field definition that may have a description too
FieldDefD(type, enum, regex, min, max, description) ==
    VMap(FieldDef(type, enum, regex, min, max).items \o Opt("description", description))

\* an entity with the fields given as a sequence of <<name, definition>>
Entity(fields) == VMap(<< <<K("fields"), VMap(fields)>> >>)

RECURSIVE Brackets(_)
Brackets(d) == IF d = 0 THEN <<>> ELSE <<"[", "]">> \o Brackets(d - 1)

\* type strings: a base, up to MaxArrayDepth "[]" suffixes, maybe a stray bracket
TypeStrings ==
    {b \o Brackets(d) \o t :
        b \in SUPPORTED_PRIMITIVE_TYPES \cup {K("object"), <<>>},
        d \in 0..MaxArrayDepth,
        t \in {<<>>, <<"[">>, <<"]">>}}

TypeVals ==
    {Absent, VNull, VInt(5), VList(<<>>), VMap(<<>>)} \cup {VStr(s) : s \in TypeStrings}

EnumVals == {Absent, VNull, VStr(K("a")), VList(<<>>), VList(<<VStr(K("a"))>>)}

RegexVals == {Absent, VStr(K("^x$"))}

RangeVals ==
    {Absent, VNull, VStr(K("1")), VList(<<>>), VMap(<<>>)}
    \cup {VInt(n) : n \in 0..MaxNum}

FieldDefs ==
    {FieldDef(t, e, r, lo, hi) :
        t \in TypeVals, e \in EnumVals, r \in RegexVals,
        lo \in RangeVals, hi \in RangeVals}

\* documents with one entity, a node or an edge, that has the one field f
FieldDocs ==
    {Doc(VInt(1),
         IF sec = "nodes" THEN VMap(<< <<K("A"), Entity(<< <<K("f"), fd>> >>)>> >>)
                          ELSE Absent,
         IF sec = "edges" THEN VMap(<< <<K("A"), Entity(<< <<K("f"), fd>> >>)>> >>)
                          ELSE Absent,
         Absent) :
        sec \in {"nodes", "edges"}, fd \in FieldDefs}

\* a section of valid entities with the given names
PlainSection(names) ==
    VMap([i \in 1..Len(names) |-> <<K(names[i]), Entity(<<>>)>>])

Rel(source, target, edges) ==
    VMap(Opt("source", source) \o Opt("target", target) \o Opt("edges", edges))

RelDefs ==
    {VNull, VInt(7), VStr(K("x")), VStr(<<"source", "target", "edges">>), VList(<<>>)}
    \cup
    {Rel(src, tgt, es) :
        src \in {Absent, VStr(K("A")), VStr(K("B")), VNull, VList(<<>>)},
        tgt \in {Absent, VStr(K("A")), VStr(K("B")), VMap(<<>>)},
        es \in {Absent, VNull, VStr(K("E")), VList(<<>>),
                VList(<<VStr(K("E"))>>), VList(<<VStr(K("F"))>>),
                VList(<<VStr(K("E")), VStr(K("F"))>>),
                VList(<<VList(<<>>)>>)}}

\* relationships that use the names A, B, E and F in the ordinary way
PlainRels ==
    {Rel(VStr(K("A")), VStr(K("A")), VList(<<VStr(K("E"))>>)),
     Rel(VStr(K("B")), VStr(K("A")), VList(<<VStr(K("F"))>>))}

RECURSIVE SeqsUpTo(_, _)
SeqsUpTo(S, n) ==
    IF n <= 0 THEN {<<>>}
    ELSE SeqsUpTo(S, n - 1)
         \cup {Append(q, x) : q \in SeqsUpTo(S, n - 1), x \in S}

\* lists of up to MaxRels entries: ordinary ones, then any entry at all
RelLists ==
    {<<>>} \cup {pre \o <<r>> : pre \in SeqsUpTo(PlainRels, MaxRels - 1), r \in RelDefs}

RelationshipsVals ==
    {VNull, VInt(7), VStr(<<>>), VStr(K("x")), VMap(<<>>),
     VMap(<< <<K("source"), VNull>> >>)}
    \cup {VList(l) : l \in RelLists}

RelDocs ==
    {Doc(VInt(1), n, e, r) :
        n \in {Absent, PlainSection(<<"A">>), PlainSection(<<"A", "B">>)},
        e \in {Absent, PlainSection(<<"E">>), PlainSection(<<"E", "F">>)},
        r \in RelationshipsVals}

\* field definitions of the documents that vary the structure
SmallFieldDefs ==
    {VNull,
     FieldDef(Absent, Absent, Absent, Absent, Absent),
     FieldDef(VStr(K("object")), Absent, Absent, Absent, Absent),
     FieldDef(VStr(<<"string", "[", "]", "[", "]">>), Absent, Absent, Absent, Absent),
     FieldDef(VInt(5), Absent, Absent, Absent, Absent),
     FieldDef(VStr(K("string")), Absent, Absent, Absent, Absent),
     FieldDef(VStr(<<"string", "[", "]">>), VList(<<VStr(K("a"))>>), Absent, Absent,
              Absent),
     FieldDef(VStr(K("int")), Absent, Absent, VInt(1), VInt(0)),
     FieldDef(VStr(K("string")), VList(<<VInt(1)>>), Absent, Absent, Absent),
     FieldDef(VStr(<<"float", "[", "]">>), Absent, Absent, VInt(0), VInt(1))}

GoodField == FieldDef(VStr(K("string")), Absent, Absent, Absent, Absent)

EntityDefs ==
    {VNull, VMap(<<>>), VMap(<< <<K("fields"), VNull>> >>),
     VMap(<< <<K("description"), VStr(K("d"))>>, <<K("fields"), VMap(<<>>)>> >>)}
    \cup {Entity(<< <<K("f"), fd>> >>) : fd \in SmallFieldDefs}
    \cup {Entity(<< <<K("f"), GoodField>>, <<K("g"), fd>> >>) : fd \in SmallFieldDefs}

NodesVals ==
    {Absent, VNull, VList(<<>>), VMap(<<>>)}
    \cup {VMap(<< <<K("A"), d>> >>) : d \in EntityDefs}
    \cup {VMap(<< <<K("A"), Entity(<< <<K("f"), GoodField>> >>)>>, <<K("B"), d>> >>) :
            d \in EntityDefs}

EdgesVals ==
    {Absent, VNull, VMap(<<>>)} \cup {VMap(<< <<K("E"), d>> >>) : d \in EntityDefs}

SmallRelationshipsVals ==
    {Absent, VNull, VList(<<>>),
     VList(<<Rel(VStr(K("A")), VStr(K("A")), VList(<<VStr(K("E"))>>))>>),
     VList(<<Rel(VStr(K("B")), VStr(K("A")), VList(<<VStr(K("E"))>>))>>)}

VersionVals ==
    {Absent, VNull, VStr(K("1")), VBool(TRUE)}
    \cup {VInt(n) : n \in (0 - MaxVersion)..MaxVersion}

\* the entities.yml files of the driver runs
StructFiles ==
    {FileMissing, FileNotYaml, Parsed(VNull), Parsed(VList(<<>>)), Parsed(VStr(K("x")))}
    \cup {Parsed(Doc(v, n, e, r)) :
            v \in {Absent, VInt(1)}, n \in NodesVals, e \in EdgesVals,
            r \in SmallRelationshipsVals}
    \cup {Parsed(Doc(v, n, Absent, Absent)) :
            v \in VersionVals,
            n \in {Absent, VNull, VMap(<< <<K("A"), Entity(<< <<K("f"), GoodField>> >>)>> >>)}}

\* a few files, for the runs whose argument is not the plain version number
SmallFiles ==
    {FileMissing, FileNotYaml,
     Parsed(Doc(VInt(1), Absent, Absent, Absent)),
     Parsed(Doc(VInt(1), VMap(<< <<K("A"), Entity(<< <<K("f"), GoodField>> >>)>> >>),
                PlainSection(<<"E">>),
                VList(<<Rel(VStr(K("A")), VStr(K("A")), VList(<<VStr(K("E"))>>))>>)))}

\* the words of a command line: a version number, and a word that is not a number
ArgWords == {"1", "x"}

ArgLists == SeqsUpTo(ArgWords, MaxArgs)

\* the entities.yml a command line selects: every file for `generate.py 1`
FilesFor(args) == IF args = <<"1">> THEN StructFiles ELSE SmallFiles

(***************************************************************************)
(* Documents for the field mappers: one entity with the one field f        *)
(***************************************************************************)
StringTypes == {VStr(K("string")), VStr(<<"string", "[", "]">>)}

NumericTypes ==
    {VStr(b \o a) : b \in RANGE_TYPES, a \in {<<>>, <<"[", "]">>}}

BooleanTypes == {VStr(K("boolean")), VStr(<<"boolean", "[", "]">>)}

MapEnums ==
    {Absent,
     VList(<<VStr(K("a"))>>),
     VList(<<VStr(K("a")), VStr(K("b"))>>),
     VList(<<VStr(<<"a", " ", "b">>)>>),
     VList(<<VInt(1)>>)}

MapRegexes ==
    {Absent,
     VStr(K("^x$")),
     VStr(K("^(?:[0-9]{1,3}\\.){3}[0-9]{1,3}$")),
     VStr(<<"^", "Email", "$">>),
     VStr(<<"^https?://", "x">>),
     VStr(<<"^https?://", "email">>),
     VStr(<<"^(?:[0-9]+\\.){3}[0-9]+$", "EMAIL">>),
     VInt(5)}

MapRanges == {Absent} \cup {VInt(n) : n \in 0..MaxNum}

MapDescriptions == {Absent, VStr(K("d"))}

MapFieldDefs ==
    {FieldDefD(t, e, r, Absent, Absent, d) :
        t \in StringTypes, e \in MapEnums, r \in MapRegexes, d \in MapDescriptions}
    \cup {FieldDefD(t, Absent, Absent, lo, hi, d) :
            t \in NumericTypes \cup BooleanTypes, lo \in MapRanges, hi \in MapRanges,
            d \in MapDescriptions}
    \cup {FieldDef(VInt(5), Absent, Absent, Absent, Absent),
          FieldDef(VStr(K("int")), VList(<<VStr(K("a"))>>), Absent, Absent, Absent),
          FieldDef(VStr(K("string")), Absent, Absent, VInt(0), Absent)}

MapDocs ==
    {Doc(VInt(1),
         IF sec = "nodes" THEN VMap(<< <<K("A"), Entity(<< <<K("f"), fd>> >>)>> >>)
                          ELSE Absent,
         IF sec = "edges" THEN VMap(<< <<K("A"), Entity(<< <<K("f"), fd>> >>)>> >>)
                          ELSE Absent,
         Absent) :
        sec \in {"nodes", "edges"}, fd \in MapFieldDefs}

\* documents for the runs that are repeated: one field, no min or max
TwiceDocs ==
    {Doc(VInt(1),
         VMap(<< <<K("A"), Entity(<< <<K("f"), FieldDef(t, e, r, Absent, Absent)>> >>)>> >>),
         Absent, Absent) :
        t \in TypeVals, e \in EnumVals, r \in RegexVals}

\* the characters of edge names: a letter in both cases, another letter, and the
\* underscore
NameChars == {"e", "E", "f", "_"}

EdgeNames == SeqsUpTo(NameChars, MaxNameLen) \ {<<>>}

\* documents with two edges of different names
NameDocs ==
    {Doc(VInt(1), Absent,
         VMap(<< <<names[1], Entity(<<>>)>>, <<names[2], Entity(<<>>)>> >>), Absent) :
        names \in {pair \in EdgeNames \X EdgeNames : pair[1] # pair[2]}}

(***************************************************************************)
(* Specifications                                                          *)
(***************************************************************************)
Start(prog, args, seed, file, vyml) ==
    /\ program = prog
    /\ argv = args
    /\ hash_seed = seed
    /\ schema_file = file
    /\ version_yml = vyml
    /\ pc = "args"
    /\ result = NoResult
    /\ schema = Absent
    /\ dirs = {}
    /\ files = <<>>
    /\ nodes_data = <<>>
    /\ edges_data = <<>>
    /\ entity_map = NoEntityMap
    /\ stderr = <<>>
    /\ stdout = <<>>
    /\ exit_code = -1

\* a generator driver is run, with some command line, on some entities.yml
Init ==
    \E prog \in Generators, args \in ArgLists, seed \in 0..MaxSeed,
       vyml \in {"present", "missing"} :
        \E file \in FilesFor(args) :
            /\ prog # "python" => vyml = "present"
            /\ Start(prog, args, seed, file, vyml)

Next ==
    \/ UsageExit
    \/ ReadArgs
    \/ ValidateOk
    \/ ValidateFail
    \/ ValidateCrash
    \/ ReadVersionYml
    \/ ReadVersionYmlFail
    \/ VersionArgError
    \/ MakeOutputDir
    \/ PrepareData
    \/ PrepareDataCrash
    \/ WriteFile
    \/ Finish

Spec == Init /\ [][Next]_vars

\* validator.py run on a document with one field
InitField ==
    \E d \in FieldDocs, seed \in 0..MaxSeed :
        Start("validator", <<"entities.yml">>, seed, Parsed(d), "present")

\* validator.py run on a document with relationships
InitRel ==
    \E d \in RelDocs, seed \in 0..MaxSeed :
        Start("validator", <<"entities.yml">>, seed, Parsed(d), "present")

NextValidator ==
    \/ ReadArgs
    \/ ValidateOk
    \/ ValidateFail
    \/ ValidateCrash
    \/ Finish

SpecField == InitField /\ [][NextValidator]_vars

SpecRel == InitRel /\ [][NextValidator]_vars

\* the same validator.py command is run once more when the first run has ended: a
\* new process, which draws a hash seed of its own; the terminal keeps the output
RunAgain ==
    /\ pc = "exited"
    /\ Len(stdout) + Len(stderr) = 1
    /\ hash_seed' \in 0..MaxSeed
    /\ pc' = "args"
    /\ result' = NoResult
    /\ schema' = Absent
    /\ exit_code' = -1
    /\ UNCHANGED <<program, argv, schema_file, version_yml, dirs, files, nodes_data,
                   edges_data, entity_map, stderr, stdout>>

InitTwice ==
    \E d \in TwiceDocs, seed \in 0..MaxSeed :
        Start("validator", <<"entities.yml">>, seed, Parsed(d), "present")

NextTwice == NextValidator \/ RunAgain

SpecTwice == InitTwice /\ [][NextTwice]_vars

\* a generator driver run as `generate.py 1` on a document for the field mappers
InitMap ==
    \E prog \in Generators, d \in MapDocs, seed \in 0..MaxSeed :
        Start(prog, <<"1">>, seed, Parsed(d), "present")

NextMap ==
    \/ ReadArgs
    \/ ValidateOk
    \/ ValidateFail
    \/ ValidateCrash
    \/ ReadVersionYml
    \/ MakeOutputDir
    \/ PrepareData
    \/ PrepareDataCrash
    \/ WriteFile
    \/ Finish

SpecMap == InitMap /\ [][NextMap]_vars

\* the Python generator run as `generate.py 1` on a document with relationships
InitEntityMap ==
    \E d \in RelDocs, seed \in 0..MaxSeed :
        Start("python", <<"1">>, seed, Parsed(d), "present")

NextEntityMap ==
    \/ ReadArgs
    \/ ValidateOk
    \/ ValidateFail
    \/ ValidateCrash
    \/ ReadVersionYml
    \/ MakeOutputDir
    \/ PrepareData
    \/ WriteFile
    \/ Finish

SpecEntityMap == InitEntityMap /\ [][NextEntityMap]_vars

\* a generator driver run as `generate.py 1` on a document with two edges
InitNames ==
    \E prog \in Generators, d \in NameDocs, seed \in 0..MaxSeed :
        Start(prog, <<"1">>, seed, Parsed(d), "present")

NextNames ==
    \/ ReadArgs
    \/ ValidateOk
    \/ ReadVersionYml
    \/ MakeOutputDir
    \/ PrepareData
    \/ WriteFile
    \/ Finish

SpecNames == InitNames /\ [][NextNames]_vars

(***************************************************************************)
(* Vocabulary of the properties                                            *)
(***************************************************************************)
\* validate_schema has run
Validated == result # NoResult

\* validation failed: validate_schema raised SchemaValidationError
Rejected == result.exc = SchemaValidationError

\* the type strings the schema language has: a primitive or a primitive with "[]"
ArrayForms == {p \o <<"[", "]">> : p \in SUPPORTED_PRIMITIVE_TYPES}

\* a type string with one array suffix removed
BaseType(s) == IF EndsWithArray(s) THEN DropLast2(s) ELSE s

\* field_def declares a type that is a string of the schema language
HasSupportedType(field_def) ==
    /\ Has(field_def, "type")
    /\ Get(field_def, "type").kind = "str"
    /\ Get(field_def, "type").s \in SUPPORTED_PRIMITIVE_TYPES \cup ArrayForms

\* the base type of a field whose type is a string
BaseOf(field_def) == BaseType(Get(field_def, "type").s)

\* in a run of SpecField: the section, the entity words and the field of the document
FieldSection == IF Has(schema_file.doc, "nodes") THEN "nodes" ELSE "edges"
FieldWord == IF FieldSection = "nodes" THEN "node" ELSE "edge"
TheField ==
    Get(Get(Get(Get(schema_file.doc, FieldSection), "A"), "fields"), "f")

\* the error names the field f and the entity A that holds it
NamesTheField ==
    /\ result.field = K("f")
    /\ result.entity = EntityType(FieldWord, K("A"))

(***************************************************************************)
(* C1: in every run of a generator driver, a directory is created or a     *)
(* file written only after validate_schema has returned successfully; and  *)
(* when validate_schema raises SchemaValidationError the run has printed   *)
(* that error to standard error and exited with status 1, with nothing     *)
(* created and nothing written.                                            *)
(***************************************************************************)
C1_ValidateBeforeWrite ==
    /\ (dirs # {} \/ files # <<>>) => result = Ok
    /\ Rejected => /\ pc = "exited"
                   /\ exit_code = 1
                   /\ stderr = <<result>>
                   /\ dirs = {}
                   /\ files = <<>>

\* a driver run that ended on a validation error
C1_Witness ==
    /\ program \in Generators
    /\ Rejected
    /\ exit_code = 1
    /\ stderr # <<>>

(***************************************************************************)
(* C2: validate_schema either returns the document or raises               *)
(* SchemaValidationError, whatever kinds of value the document carries: no *)
(* other exception escapes it.                                             *)
(***************************************************************************)
C2_OnlyTwoOutcomes ==
    Validated => result.exc \in {"none", SchemaValidationError}

FieldShapeOk(field_def) ==
    /\ field_def.kind = "map"
    /\ Has(field_def, "type")
    /\ Get(field_def, "type").kind = "str"
    /\ BaseOf(field_def) \in SUPPORTED_PRIMITIVE_TYPES

EntityShapeOk(entity_def) ==
    /\ entity_def.kind = "map"
    /\ Has(entity_def, "fields")
    /\ Get(entity_def, "fields").kind = "map"
    /\ \A j \in 1..Len(Get(entity_def, "fields").items) :
          FieldShapeOk(Get(entity_def, "fields").items[j][2])

SectionShapeOk(doc, key) ==
    Has(doc, key) =>
        /\ Get(doc, key).kind = "map"
        /\ \A i \in 1..Len(Get(doc, key).items) :
              EntityShapeOk(Get(doc, key).items[i][2])

(***************************************************************************)
(* C3: every schema validate_schema accepts is structurally valid: nodes   *)
(* and edges, when present, are mappings; every entity is a mapping with a *)
(* fields mapping; every field is a mapping with a type whose base type    *)
(* (one array suffix removed) is a supported primitive.                    *)
(***************************************************************************)
C3_AcceptedIsStructurallyValid ==
    result = Ok => /\ schema = schema_file.doc
                   /\ SectionShapeOk(schema, "nodes")
                   /\ SectionShapeOk(schema, "edges")

\* an accepted schema with two nodes and an edge that have fields
C3_Witness ==
    /\ result = Ok
    /\ Has(schema, "nodes") /\ Has(schema, "edges")
    /\ Len(Get(schema, "nodes").items) = 2
    /\ Len(Get(schema, "edges").items) = 1
    /\ Len(Get(Get(schema, "nodes").items[2][2], "fields").items) = 2
    /\ Len(Get(Get(schema, "edges").items[1][2], "fields").items) = 2

(***************************************************************************)
(* C4: a field whose type is outside the supported primitives and their    *)
(* array forms makes validation fail with the unsupported-type error, and  *)
(* the message names the field and the entity that holds it.               *)
(***************************************************************************)
C4_UnsupportedTypeReported ==
    (Validated /\ Has(TheField, "type") /\ ~HasSupportedType(TheField)) =>
        /\ Rejected
        /\ result.rule \in {"UnsupportedFieldType", "UnsupportedArrayBaseType"}
        /\ NamesTheField

TypeIsString(field_def) ==
    Has(field_def, "type") /\ Get(field_def, "type").kind = "str"

NonEmptyList(v) == v.kind = "list" /\ Len(v.items) > 0

(***************************************************************************)
(* C5: a field that declares enum and whose base type is not string fails  *)
(* validation, and so does one that declares regex; a field of base type   *)
(* string whose enum is not a non-empty list fails too; a string field     *)
(* with a non-empty enum list, or with a regex, is not rejected by the     *)
(* enum and regex rules.  (A base type is that of a type string.)          *)
(***************************************************************************)
C5_EnumAndRegexNeedString ==
    (Validated /\ TypeIsString(TheField)) =>
        /\ (Has(TheField, "enum") /\ BaseOf(TheField) # K("string")) => Rejected
        /\ (Has(TheField, "regex") /\ BaseOf(TheField) # K("string")) => Rejected
        /\ (Has(TheField, "enum") /\ BaseOf(TheField) = K("string")
            /\ ~NonEmptyList(Get(TheField, "enum"))) => Rejected
        /\ (Has(TheField, "enum") /\ BaseOf(TheField) = K("string")
            /\ NonEmptyList(Get(TheField, "enum"))) =>
                result.rule \notin {"EnumTypeMismatch", "EnumNotNonEmptyList"}
        /\ (Has(TheField, "regex") /\ BaseOf(TheField) = K("string")) =>
                result.rule # "RegexTypeMismatch"

\* an accepted array-of-string field that declares both an enum and a regex
C5_Witness ==
    /\ result = Ok
    /\ Get(TheField, "type") = VStr(<<"string", "[", "]">>)
    /\ Has(TheField, "enum") /\ Has(TheField, "regex")

DeclaresRange(field_def) == Has(field_def, "min") \/ Has(field_def, "max")

(***************************************************************************)
(* C6, as claimed: a field (of a supported type) that declares min or max  *)
(* fails with the range-applicability error when its base type is not int, *)
(* float or timestamp, and is not rejected by that rule when it is.        *)
(***************************************************************************)
C6_Original ==
    (Validated /\ HasSupportedType(TheField) /\ DeclaresRange(TheField)) =>
        IF BaseOf(TheField) \notin RANGE_TYPES
        THEN Rejected /\ result.rule = "RangeTypeMismatch"
        ELSE result.rule # "RangeTypeMismatch"

\* the field breaks neither the enum rule nor the regex rule
PassesEnumAndRegex(field_def) ==
    /\ Has(field_def, "enum") =>
          BaseOf(field_def) = K("string") /\ NonEmptyList(Get(field_def, "enum"))
    /\ Has(field_def, "regex") => BaseOf(field_def) = K("string")

(***************************************************************************)
(* C6, amended: a field of a supported type that declares min or max and   *)
(* whose base type is not int, float or timestamp fails validation: with   *)
(* the range-applicability error when it breaks neither the enum nor the   *)
(* regex rule, and with the enum or regex error, checked first, when it    *)
(* does; with base type int, float or timestamp, array forms included, it  *)
(* is not rejected by the range-applicability rule.                        *)
(***************************************************************************)
C6_RangeNeedsNumeric ==
    (Validated /\ HasSupportedType(TheField) /\ DeclaresRange(TheField)) =>
        IF BaseOf(TheField) \in RANGE_TYPES
        THEN result.rule # "RangeTypeMismatch"
        ELSE /\ Rejected
             /\ NamesTheField
             /\ IF PassesEnumAndRegex(TheField)
                THEN result.rule = "RangeTypeMismatch"
                ELSE result.rule \in {"EnumTypeMismatch", "EnumNotNonEmptyList",
                                      "RegexTypeMismatch"}

\* an array-of-boolean field with only a max, rejected by the range rule
C6_Witness ==
    /\ Rejected
    /\ result.rule = "RangeTypeMismatch"
    /\ Get(TheField, "type") = VStr(<<"boolean", "[", "]">>)
    /\ Has(TheField, "max") /\ ~Has(TheField, "min")

DeclaresNumericRange(field_def) ==
    /\ Has(field_def, "min") /\ Get(field_def, "min").kind = "int"
    /\ Has(field_def, "max") /\ Get(field_def, "max").kind = "int"

(***************************************************************************)
(* C7, as claimed: a field (of a supported type, with numbers for min and  *)
(* max) that declares min > max fails with the range-order error, and one  *)
(* that declares min <= max passes.                                        *)
(***************************************************************************)
C7_Original ==
    (Validated /\ HasSupportedType(TheField) /\ DeclaresNumericRange(TheField)) =>
        IF Get(TheField, "min").n > Get(TheField, "max").n
        THEN Rejected /\ result.rule = "RangeOrderViolation"
        ELSE result = Ok

(***************************************************************************)
(* C7, amended: a field whose base type is int, float or timestamp (array  *)
(* forms included), that declares neither enum nor regex, and that         *)
(* declares both min and max: with min > max validation fails with the     *)
(* range-order error, which names the field and its entity; with           *)
(* min <= max, equality included, the field passes.                        *)
(***************************************************************************)
C7_RangeOrder ==
    (/\ Validated
     /\ HasSupportedType(TheField)
     /\ DeclaresNumericRange(TheField)
     /\ BaseOf(TheField) \in RANGE_TYPES
     /\ ~Has(TheField, "enum")
     /\ ~Has(TheField, "regex")) =>
        IF Get(TheField, "min").n > Get(TheField, "max").n
        THEN Rejected /\ result.rule = "RangeOrderViolation" /\ NamesTheField
        ELSE result = Ok

\* an accepted field with min equal to max
C7_Witness ==
    /\ result = Ok
    /\ DeclaresNumericRange(TheField)
    /\ Get(TheField, "min") = Get(TheField, "max")

(***************************************************************************)
(* Relationships of a run of SpecRel                                       *)
(***************************************************************************)
DefinedNodes ==
    IF Has(schema_file.doc, "nodes") THEN Keys(Get(schema_file.doc, "nodes")) ELSE {}
DefinedEdges ==
    IF Has(schema_file.doc, "edges") THEN Keys(Get(schema_file.doc, "edges")) ELSE {}

\* the relationships section is a list
HasRelationshipList ==
    /\ Has(schema_file.doc, "relationships")
    /\ Get(schema_file.doc, "relationships").kind = "list"
TheRels == Get(schema_file.doc, "relationships").items

IsListOfStrings(v) ==
    v.kind = "list" /\ \A j \in 1..Len(v.items) : v.items[j].kind = "str"

\* a mapping whose source and target are strings and whose edges is a list of strings,
\* as far as it has them
RelOfNames(rel) ==
    /\ rel.kind = "map"
    /\ Has(rel, "source") => Get(rel, "source").kind = "str"
    /\ Has(rel, "target") => Get(rel, "target").kind = "str"
    /\ Has(rel, "edges") => IsListOfStrings(Get(rel, "edges"))

\* it has all three keys, and at least one edge
RelComplete(rel) ==
    /\ Has(rel, "source") /\ Has(rel, "target") /\ Has(rel, "edges")
    /\ Len(Get(rel, "edges").items) > 0

\* the undefined names a relationship refers to
UndefinedRefs(rel) ==
    (IF Has(rel, "source") /\ Get(rel, "source").s \notin DefinedNodes
     THEN {Get(rel, "source").s} ELSE {})
    \cup (IF Has(rel, "target") /\ Get(rel, "target").s \notin DefinedNodes
          THEN {Get(rel, "target").s} ELSE {})
    \cup (IF Has(rel, "edges")
          THEN {Get(rel, "edges").items[j].s : j \in
                  {k \in 1..Len(Get(rel, "edges").items) :
                      Get(rel, "edges").items[k].s \notin DefinedEdges}}
          ELSE {})

UndefinedRules == {"UndefinedSourceNode", "UndefinedTargetNode", "UndefinedEdge"}

(***************************************************************************)
(* C8, as claimed: when some relationship names a source or target that is *)
(* no key of nodes, or lists an edge that is no key of edges, validation   *)
(* fails and the error gives that relationship's 1-based position and      *)
(* names the undefined node or edge; when every relationship refers to     *)
(* defined names only, validation passes.                                  *)
(***************************************************************************)
C8_Original ==
    (/\ Validated
     /\ HasRelationshipList
     /\ \A i \in 1..Len(TheRels) : RelOfNames(TheRels[i])) =>
        IF \E i \in 1..Len(TheRels) : UndefinedRefs(TheRels[i]) # {}
        THEN /\ Rejected
             /\ result.rule \in UndefinedRules
             /\ result.index \in 1..Len(TheRels)
             /\ result.name \in UndefinedRefs(TheRels[result.index])
        ELSE result = Ok

\* the first undefined name of a complete relationship, in the order source, target,
\* edges: the rule that reports it and the name
FirstUndefined(rel) ==
    IF Get(rel, "source").s \notin DefinedNodes
    THEN <<"UndefinedSourceNode", Get(rel, "source").s>>
    ELSE IF Get(rel, "target").s \notin DefinedNodes
    THEN <<"UndefinedTargetNode", Get(rel, "target").s>>
    ELSE LET es == Get(rel, "edges").items
             j == CHOOSE k \in 1..Len(es) :
                     /\ es[k].s \notin DefinedEdges
                     /\ \A m \in 1..(k - 1) : es[m].s \in DefinedEdges IN
         <<"UndefinedEdge", es[j].s>>

(***************************************************************************)
(* C8, amended: for a schema whose relationships all have a source, a      *)
(* target and a non-empty list of edges: when some relationship names an   *)
(* undefined source, target or edge, validation fails and the error gives  *)
(* the 1-based position of the first such relationship and names its first *)
(* undefined node or edge (source, then target, then the edges in order);  *)
(* when every relationship refers to defined names only, validation        *)
(* passes.  And with or without those keys, a schema in which a            *)
(* relationship refers to an undefined name is never accepted.             *)
(***************************************************************************)
C8_UndefinedReferences ==
    (/\ Validated
     /\ HasRelationshipList
     /\ \A i \in 1..Len(TheRels) : RelOfNames(TheRels[i])) =>
        /\ (\E i \in 1..Len(TheRels) : UndefinedRefs(TheRels[i]) # {}) => result # Ok
        /\ (\A i \in 1..Len(TheRels) : RelComplete(TheRels[i])) =>
              IF \E i \in 1..Len(TheRels) : UndefinedRefs(TheRels[i]) # {}
              THEN LET first == CHOOSE i \in 1..Len(TheRels) :
                                  /\ UndefinedRefs(TheRels[i]) # {}
                                  /\ \A m \in 1..(i - 1) : UndefinedRefs(TheRels[m]) = {}
                   IN /\ Rejected
                      /\ result.index = first
                      /\ result.rule = FirstUndefined(TheRels[first])[1]
                      /\ result.name = FirstUndefined(TheRels[first])[2]
              ELSE result = Ok

\* the second relationship lists a defined edge and then an undefined one
C8_Witness ==
    /\ Rejected
    /\ result.rule = "UndefinedEdge"
    /\ result.index = 2
    /\ result.name = K("F")
    /\ Len(Get(TheRels[2], "edges").items) = 2

(***************************************************************************)
(* C9: a schema (a top-level mapping) that has no version key fails with   *)
(* the missing-version error, whatever else it contains.                   *)
(***************************************************************************)
C9_MissingVersion ==
    (/\ Validated
     /\ schema_file.state = "parsed"
     /\ schema_file.doc.kind = "map"
     /\ ~Has(schema_file.doc, "version")) =>
        Rejected /\ result.rule = "MissingVersion"

\* a schema without version whose nodes section is not even a mapping
C9_Witness ==
    /\ Rejected
    /\ result.rule = "MissingVersion"
    /\ Has(schema_file.doc, "nodes")
    /\ Get(schema_file.doc, "nodes").kind = "null"
    /\ Has(schema_file.doc, "relationships")

VersionNumber(v) == IF v.kind = "bool" THEN (IF v.b THEN 1 ELSE 0) ELSE v.n

(***************************************************************************)
(* C10: every schema validate_schema accepts has a version that is an      *)
(* integer greater than zero (a YAML true counts as the integer 1).        *)
(***************************************************************************)
C10_VersionPositive ==
    result = Ok => /\ Get(schema, "version").kind \in {"int", "bool"}
                   /\ VersionNumber(Get(schema, "version")) > 0

(***************************************************************************)
(* The rules a schema violates, each looked at on its own, listed in the   *)
(* order: top-level shape, version, nodes, edges, relationships            *)
(***************************************************************************)
\* the base type of a field: its type string with one array suffix removed
DeclaredBase(field_def) ==
    IF TypeIsString(field_def) THEN BaseOf(field_def) ELSE <<>>

\* the text of the field's type
DeclaredType(field_def) ==
    IF Has(field_def, "type") THEN Show(Get(field_def, "type")) ELSE <<>>

TypeViolations(field_name, field_def, entity_type) ==
    IF ~Has(field_def, "type")
    THEN <<Raise("MissingFieldType", field_name, entity_type, 0, <<>>)>>
    ELSE IF DeclaredBase(field_def) \in SUPPORTED_PRIMITIVE_TYPES THEN <<>>
    ELSE IF TypeIsString(field_def) /\ EndsWithArray(Get(field_def, "type").s)
    THEN <<RaiseUnsupported("UnsupportedArrayBaseType", field_name, entity_type,
                            DeclaredBase(field_def))>>
    ELSE <<RaiseUnsupported("UnsupportedFieldType", field_name, entity_type,
                            DeclaredType(field_def))>>

EnumViolations(field_name, field_def, entity_type) ==
    IF ~Has(field_def, "enum") THEN <<>>
    ELSE IF DeclaredBase(field_def) # K("string")
    THEN <<Raise("EnumTypeMismatch", field_name, entity_type, 0,
                 DeclaredType(field_def))>>
    ELSE IF ~NonEmptyList(Get(field_def, "enum"))
    THEN <<Raise("EnumNotNonEmptyList", field_name, entity_type, 0, <<>>)>>
    ELSE <<>>

RegexViolations(field_name, field_def, entity_type) ==
    IF Has(field_def, "regex") /\ DeclaredBase(field_def) # K("string")
    THEN <<Raise("RegexTypeMismatch", field_name, entity_type, 0,
                 DeclaredType(field_def))>>
    ELSE <<>>

RangeViolations(field_name, field_def, entity_type) ==
    (IF DeclaresRange(field_def) /\ DeclaredBase(field_def) \notin RANGE_TYPES
     THEN <<Raise("RangeTypeMismatch", field_name, entity_type, 0,
                  DeclaredType(field_def))>>
     ELSE <<>>)
    \o (IF /\ Has(field_def, "min") /\ Has(field_def, "max")
           /\ PyGreater(Get(field_def, "min"), Get(field_def, "max")) = "true"
        THEN <<Raise("RangeOrderViolation", field_name, entity_type, 0,
                     Show(Get(field_def, "min")) \o Show(Get(field_def, "max")))>>
        ELSE <<>>)

FieldViolations(field_name, field_def, entity_type) ==
    IF field_def.kind # "map"
    THEN <<Raise("FieldNotDict", field_name, entity_type, 0, <<>>)>>
    ELSE TypeViolations(field_name, field_def, entity_type)
         \o EnumViolations(field_name, field_def, entity_type)
         \o RegexViolations(field_name, field_def, entity_type)
         \o RangeViolations(field_name, field_def, entity_type)

EntityViolations(word, entity_name, entity_def) ==
    LET entity_type == EntityType(word, entity_name)
        fields == Get(entity_def, "fields").items IN
    IF entity_def.kind # "map"
    THEN <<Raise("EntityNotDict", <<>>, entity_type, 0, <<>>)>>
    ELSE IF ~Has(entity_def, "fields")
    THEN <<Raise("MissingFields", <<>>, entity_type, 0, <<>>)>>
    ELSE IF Get(entity_def, "fields").kind # "map"
    THEN <<Raise("FieldsNotDict", <<>>, entity_type, 0, <<>>)>>
    ELSE Concat([j \in 1..Len(fields) |->
                    FieldViolations(fields[j][1], fields[j][2], entity_type)])

SectionViolations(doc, key, word) ==
    LET entities == Get(doc, key).items IN
    IF ~Has(doc, key) THEN <<>>
    ELSE IF Get(doc, key).kind # "map"
    THEN <<Raise(IF key = "nodes" THEN "NodesNotDict" ELSE "EdgesNotDict",
                 <<>>, <<>>, 0, <<>>)>>
    ELSE Concat([i \in 1..Len(entities) |->
                    EntityViolations(word, entities[i][1], entities[i][2])])

\* v is the name of one of names
Names(v, names) == v.kind = "str" /\ v.s \in names

RECURSIVE UndefinedEdges(_, _, _, _)
UndefinedEdges(rel_edges, j, edges, i) ==
    IF j > Len(rel_edges) THEN <<>>
    ELSE (IF Names(rel_edges[j], edges) THEN <<>>
          ELSE <<Raise("UndefinedEdge", <<>>, <<>>, i, Show(rel_edges[j]))>>)
         \o UndefinedEdges(rel_edges, j + 1, edges, i)

\* the violations of the i-th relationship; an entry that is no mapping is missing
\* the keys that `in` does not find in it
RelViolations(rel, i, nodes, edges) ==
    LET has(key) == rel.kind = "map" /\ Has(rel, key)
        lacks(key) == PyIn(key, rel) # "true" IN
    (IF lacks("source") THEN <<Raise("MissingSource", <<>>, <<>>, i, <<>>)>> ELSE <<>>)
    \o (IF lacks("target") THEN <<Raise("MissingTarget", <<>>, <<>>, i, <<>>)>> ELSE <<>>)
    \o (IF lacks("edges") THEN <<Raise("MissingEdges", <<>>, <<>>, i, <<>>)>> ELSE <<>>)
    \o (IF has("source") /\ ~Names(Get(rel, "source"), nodes)
        THEN <<Raise("UndefinedSourceNode", <<>>, <<>>, i, Show(Get(rel, "source")))>>
        ELSE <<>>)
    \o (IF has("target") /\ ~Names(Get(rel, "target"), nodes)
        THEN <<Raise("UndefinedTargetNode", <<>>, <<>>, i, Show(Get(rel, "target")))>>
        ELSE <<>>)
    \o (IF has("edges") /\ ~NonEmptyList(Get(rel, "edges"))
        THEN <<Raise("EdgesNotNonEmptyList", <<>>, <<>>, i, <<>>)>>
        ELSE <<>>)
    \o (IF has("edges") /\ NonEmptyList(Get(rel, "edges"))
        THEN UndefinedEdges(Get(rel, "edges").items, 1, edges, i)
        ELSE <<>>)

RECURSIVE RelsViolations(_, _, _, _)
RelsViolations(rels, i, nodes, edges) ==
    IF i > Len(rels) THEN <<>>
    ELSE RelViolations(rels[i], i, nodes, edges)
         \o RelsViolations(rels, i + 1, nodes, edges)

\* the names a section defines
SectionKeys(doc, key) ==
    IF Has(doc, key) /\ Get(doc, key).kind = "map" THEN Keys(Get(doc, key)) ELSE {}

RelationshipsViolations(doc) ==
    IF Has(doc, "relationships") /\ Iterable(Get(doc, "relationships"))
    THEN RelsViolations(PyIter(Get(doc, "relationships")), 1,
                        SectionKeys(doc, "nodes"), SectionKeys(doc, "edges"))
    ELSE <<>>

VersionViolations(doc) ==
    IF ~Has(doc, "version") THEN <<Raise("MissingVersion", <<>>, <<>>, 0, <<>>)>>
    ELSE IF Get(doc, "version").kind \notin {"int", "bool"}
    THEN <<Raise("VersionNotInt", <<>>, <<>>, 0, <<>>)>>
    ELSE <<>>

\* every violation of the file, in the order of the rules
Violations(file) ==
    IF file.state = "missing" THEN <<Raise("FileNotFound", <<>>, <<>>, 0, <<>>)>>
    ELSE IF file.state = "not_yaml" THEN <<Raise("InvalidYaml", <<>>, <<>>, 0, <<>>)>>
    ELSE IF file.doc.kind # "map" THEN <<Raise("NotADictionary", <<>>, <<>>, 0, <<>>)>>
    ELSE VersionViolations(file.doc)
         \o SectionViolations(file.doc, "nodes", "node")
         \o SectionViolations(file.doc, "edges", "edge")
         \o RelationshipsViolations(file.doc)

(***************************************************************************)
(* C11: validation is fail-fast.  For a schema that violates one rule or   *)
(* several, validate_schema reports exactly one error, the one for the     *)
(* first violated rule in the order top-level shape, version, nodes in     *)
(* mapping order (shape, then each field: type, enum, regex, min/max       *)
(* applicability, min/max order), edges likewise, relationships in         *)
(* sequence order (missing source, missing target, missing edges,          *)
(* undefined source, undefined target, edges not a non-empty list, first   *)
(* undefined edge).                                                        *)
(***************************************************************************)
C11_FailFast ==
    (Validated /\ Violations(schema_file) # <<>>) =>
        /\ result = Head(Violations(schema_file))
        /\ stderr = <<result>>

\* the same, for the runs in which validate_schema raises nothing but its own error
C11_FailFastIfNoCrash ==
    (Validated /\ Violations(schema_file) # <<>>
     /\ result.exc \in {"none", SchemaValidationError}) =>
        /\ result = Head(Violations(schema_file))
        /\ stderr = <<result>>

(***************************************************************************)
(* C12: on success validate_schema returns the parsed document with no key *)
(* or value added, removed or changed, so validating the same valid schema *)
(* twice yields the same unchanged structure both times: in the first run  *)
(* and in the second, the schema returned is the document of the file.     *)
(***************************************************************************)
C12_ReturnsDocumentUnchanged ==
    (result = Ok) => (schema = schema_file.doc)

\* the second run of the validator has accepted a document with an enum field
C12_Witness ==
    /\ pc = "exited"
    /\ stdout = <<"complete", "complete">>
    /\ result = Ok
    /\ schema = schema_file.doc
    /\ Has(Get(Get(Get(Get(schema, "nodes"), "A"), "fields"), "f"), "enum")

\* the runs of one command line that have ended, and their number
RunsEnded == Len(stdout) + Len(stderr)

(***************************************************************************)
(* C13: validation is deterministic.  Two runs of the validator on the     *)
(* same file have the same outcome: both accept, or both reject with the   *)
(* same error, the full text of its message (the list of supported types   *)
(* of the unsupported-type message) included.                              *)
(***************************************************************************)
C13_Deterministic ==
    (pc = "exited" /\ RunsEnded = 2) =>
        \/ stdout = <<"complete", "complete">>
        \/ Len(stderr) = 2 /\ stderr[1] = stderr[2]

\* validation without the text of the messages: the same decision, the same rule
C13_SameRule ==
    (pc = "exited" /\ RunsEnded = 2) =>
        \/ stdout = <<"complete", "complete">>
        \/ /\ Len(stderr) = 2
           /\ [stderr[1] EXCEPT !.supported = <<>>] = [stderr[2] EXCEPT !.supported = <<>>]

\* nothing was validated and nothing was written
NothingDone == result = NoResult /\ dirs = {} /\ files = <<>> /\ stderr = <<>>

\* the run has failed with the usage message
UsageFailure == stdout = <<"usage">> /\ exit_code = 1

\* C14 as stated: a run with no argument, with more than one, or with an argument
\* that selects no schema version (no entities.yml for it) fails with the usage
\* message and a non-zero exit status, without validating or writing anything
C14_Original ==
    (Len(argv) # 1 \/ schema_file = FileMissing) =>
        /\ NothingDone
        /\ pc = "exited" => UsageFailure

(***************************************************************************)
(* C14: each generator driver takes exactly one positional argument.  A    *)
(* run with no argument or with more than one fails with the usage message *)
(* on standard output and exit status 1, without validating or writing     *)
(* anything.  A run with one argument for which there is no entities.yml   *)
(* is validated: it fails with the schema-file-not-found validation error  *)
(* on standard error and exit status 1, with no usage message and without  *)
(* writing anything.                                                       *)
(***************************************************************************)
C14_UsageOnWrongArity ==
    /\ Len(argv) # 1 =>
          /\ NothingDone
          /\ pc = "exited" => UsageFailure
    /\ (Len(argv) = 1 /\ schema_file = FileMissing) =>
          /\ dirs = {} /\ files = <<>> /\ stdout = <<>>
          /\ pc = "exited" =>
                /\ result = Raise("FileNotFound", <<>>, <<>>, 0, <<>>)
                /\ stderr = <<result>>
                /\ exit_code = 1

\* a driver run with the one argument x, for which there is no entities.yml, has
\* ended
C14_Witness ==
    /\ pc = "exited"
    /\ argv = <<"x">>
    /\ schema_file = FileMissing
    /\ result.rule = "FileNotFound"
    /\ exit_code = 1

\* a driver run with two arguments has ended with the usage message
C14_WitnessUsage ==
    /\ pc = "exited"
    /\ Len(argv) = 2
    /\ UsageFailure

(***************************************************************************)
(* Reading the output of the field mappers                                 *)
(***************************************************************************)
\* the fields of a section of the validated schema with what the running mapper
\* has made of them: <<field name, field definition, mapper output>>
FieldsOf(section, data) ==
    UNION {{<<data[i][2].fields[j][1],
              GetOr(GetOr(schema, section, VMap(<<>>)).items[i][2], "fields",
                    VMap(<<>>)).items[j][2],
              data[i][2].fields[j][2]>> :
            j \in 1..Len(data[i][2].fields)} : i \in 1..Len(data)}

MappedFields == FieldsOf("nodes", nodes_data) \cup FieldsOf("edges", edges_data)

HasToken(text, token) == \E i \in 1..Len(text) : text[i] = token

\* the tokens of text that follow the first token `open` up to the next token of
\* closers, or up to the end
Between(text, open, closers) ==
    LET i == CHOOSE k \in 1..Len(text) :
                 text[k] = open /\ \A m \in 1..(k - 1) : text[m] # open
        rest == SubSeq(text, i + 1, Len(text))
        stops == {k \in 1..Len(rest) : rest[k] \in closers} IN
    IF stops = {} THEN rest
    ELSE SubSeq(rest, 1, (CHOOSE k \in stops : \A m \in stops : k <= m) - 1)

\* the pieces of text between the tokens sep
RECURSIVE SplitAt(_, _)
SplitAt(text, sep) ==
    IF ~HasToken(text, sep) THEN <<text>>
    ELSE <<Between(<<sep>> \o text, sep, {sep})>>
         \o SplitAt(SubSeq(text, Len(Between(<<sep>> \o text, sep, {sep})) + 2,
                           Len(text)), sep)

\* the text of the generated code that a mapper output carries
CodeText(prog, out) ==
    CASE prog = "go" -> out.struct_tag
      [] prog = "python" -> out.python_type \o <<" = Field(">> \o out.field_args \o <<")">>
      [] OTHER -> out.zod_schema

\* the tokens that open a constraint of each kind in the code of each target:
\* Literal[..], ge= and le= of pydantic; oneof=, the built-in validators, min= and
\* max= of go-playground/validator; z.enum, .regex, .min and .max of Zod
Openers(prog, kind) ==
    CASE prog = "python" /\ kind = "enum" -> {"Literal["}
      [] prog = "python" /\ kind = "min" -> {"ge="}
      [] prog = "python" /\ kind = "max" -> {"le="}
      [] prog = "go" /\ kind = "enum" -> {"oneof="}
      [] prog = "go" /\ kind = "regex" -> {"ipv4", "email", "url"}
      [] prog = "go" /\ kind = "min" -> {"min="}
      [] prog = "go" /\ kind = "max" -> {"max="}
      [] prog = "typescript" /\ kind = "enum" -> {"z.enum(["}
      [] prog = "typescript" /\ kind = "regex" -> {"z.string().regex(/"}
      [] prog = "typescript" /\ kind = "min" -> {".min("}
      [] prog = "typescript" /\ kind = "max" -> {".max("}
      [] OTHER -> {}

ConstraintKinds == {"enum", "regex", "min", "max"}

\* the kinds of constraint in the code of a field
KindsIn(prog, out) ==
    {kind \in ConstraintKinds :
        \E token \in Openers(prog, kind) : HasToken(CodeText(prog, out), token)}

\* what the constraints of the code apply to: Zod constraints inside z.array( ) bind
\* each element; a validate tag without dive, and Field() arguments and a Literal
\* type, bind the value of the field itself
AppliesTo(prog, out) ==
    IF prog = "typescript" /\ out.zod_schema[1] = "z.array(" THEN "element" ELSE "value"

\* the constraints a target enforces: which kinds, and on what
Enforced(prog, out) ==
    IF out.exc # "none" THEN {<<"no code", out.exc>>}
    ELSE {<<kind, AppliesTo(prog, out)>> : kind \in KindsIn(prog, out)}

\* the kinds of constraint a field declares
Declared(field_def) == {kind \in ConstraintKinds : Has(field_def, kind)}

(***************************************************************************)
(* C15: the three targets carry equivalent validation semantics.  For      *)
(* every field of a validated schema, the code the running generator makes *)
(* for it enforces the same kinds of constraint, on the same thing (the    *)
(* value, or each element of an array), as the code each of the three      *)
(* generators makes for that field.                                        *)
(***************************************************************************)
C15_EquivalentTargets ==
    \A f \in MappedFields : \A prog \in Generators :
        Enforced(prog, PrepareField(prog, f[1], f[2])) = Enforced(program, f[3])

\* the targets agree on the fields that declare no constraint
C15_EquivalentIfUnconstrained ==
    \A f \in MappedFields : \A prog \in Generators :
        Declared(f[2]) = {} =>
            Enforced(prog, PrepareField(prog, f[1], f[2])) = Enforced(program, f[3])

\* the number a text of the generated code spells, null when it spells none
ParseNumber(text) ==
    IF \E n \in 0..(MaxNum + 1) : text = <<ToString(n)>>
    THEN VInt(CHOOSE n \in 0..(MaxNum + 1) : text = <<ToString(n)>>)
    ELSE VNull

\* the value a literal of the generated code denotes: a quoted string or a number
ParseLiteral(text, quote) ==
    IF Len(text) >= 2 /\ text[1] = quote /\ text[Len(text)] = quote
    THEN VStr(SubSeq(text, 2, Len(text) - 1))
    ELSE ParseNumber(text)

\* the bound of the given kind that the code of a field carries
BoundIn(prog, out, kind) ==
    ParseNumber(Between(CodeText(prog, out),
                        CHOOSE token \in Openers(prog, kind) : TRUE,
                        {", ", ")", ",", "\""}))

\* the values the enum constraint of the code allows: the elements of Literal[..]
\* and of z.enum([..]) are separated by ", "; the parameter of oneof= is a list of
\* words separated by spaces
EnumIn(prog, out) ==
    LET text == CodeText(prog, out) IN
    CASE prog = "python" ->
             LET parts == SplitAt(Between(text, "Literal[", {"]"}), ", ") IN
             [i \in 1..Len(parts) |-> ParseLiteral(parts[i], "'")]
      [] prog = "go" ->
             LET parts == SplitAt(Between(text, "oneof=", {",", "\""}), " ") IN
             [i \in 1..Len(parts) |-> VStr(parts[i])]
      [] OTHER ->
             LET parts == SplitAt(Between(text, "z.enum([", {"])"}), ", ") IN
             [i \in 1..Len(parts) |-> ParseLiteral(parts[i], "\"")]

(***************************************************************************)
(* C16: for every field of a valid schema and each target mapper, the      *)
(* constraints in the mapper's output are a subset of those the field      *)
(* declares: an enum, pattern, lower-bound or upper-bound constraint is in *)
(* the output only if the field declares enum, regex, min or max, and a    *)
(* bound or enum in the output carries exactly the declared value(s).      *)
(***************************************************************************)
C16_ConstraintSubset ==
    \A f \in MappedFields :
        /\ KindsIn(program, f[3]) \subseteq Declared(f[2])
        /\ \A kind \in KindsIn(program, f[3]) \cap {"min", "max"} :
              BoundIn(program, f[3], kind) = Get(f[2], kind)
        /\ "enum" \in KindsIn(program, f[3]) =>
              EnumIn(program, f[3]) = Get(f[2], "enum").items

\* the same without the values of the enum: kinds and bounds only
C16_KindsAndBounds ==
    \A f \in MappedFields :
        /\ KindsIn(program, f[3]) \subseteq Declared(f[2])
        /\ \A kind \in KindsIn(program, f[3]) \cap {"min", "max"} :
              BoundIn(program, f[3], kind) = Get(f[2], kind)

\* the type expression in the output of a mapper
TypeExpression(prog, out) ==
    CASE prog = "go" -> out.go_type
      [] prog = "python" -> out.python_type
      [] OTHER -> out.zod_schema

\* the entry of the target's type table for a type, arrays wrapped
TableType(prog, yaml_type) ==
    CASE prog = "go" -> go_type_from_yaml(yaml_type)
      [] prog = "python" -> python_type_from_yaml(yaml_type)
      [] OTHER -> ZodSchema(yaml_type, VMap(<<>>))

\* the token an array type of the target begins with
ArrayWrapper(prog) ==
    CASE prog = "go" -> "*[]"
      [] prog = "python" -> "list["
      [] OTHER -> "z.array("

\* a type with all its array suffixes removed
RECURSIVE StripArrays(_)
StripArrays(yaml_type) ==
    IF EndsWithArray(yaml_type) THEN StripArrays(DropLast2(yaml_type)) ELSE yaml_type

\* the fields the mappers type by the table: every table lookup finds an entry,
\* and a field that declares no constraint has the table's type
C17_TableForUnconstrained ==
    \A f \in MappedFields :
        /\ StripArrays(Get(f[2], "type").s) \in SUPPORTED_PRIMITIVE_TYPES
        /\ Declared(f[2]) = {} =>
              TypeExpression(program, f[3]) = TableType(program, Get(f[2], "type").s)

(***************************************************************************)
(* C17: for every field of a validated schema and every target, the type   *)
(* emitted is the table entry of the field's primitive type, wrapped in    *)
(* the target's array type for an array: a field that declares no          *)
(* constraint gets exactly that type, a field whose type is an array form  *)
(* gets an array type whatever constraints it declares, and the fallback   *)
(* of the table is never used.                                             *)
(***************************************************************************)
C17_TypeTable ==
    \A f \in MappedFields :
        /\ StripArrays(Get(f[2], "type").s) \in SUPPORTED_PRIMITIVE_TYPES
        /\ Declared(f[2]) = {} =>
              TypeExpression(program, f[3]) = TableType(program, Get(f[2], "type").s)
        /\ EndsWithArray(Get(f[2], "type").s) =>
              TypeExpression(program, f[3])[1] = ArrayWrapper(program)

\* the number that follows key in the arguments of Field
FieldBound(field_args, key) == ParseNumber(Between(field_args, key, {", "})).n

\* pydantic's reading of the arguments of Field for a supplied number v: ge and le
\* are inclusive bounds, gt and lt exclusive ones
PydanticAccepts(field_args, v) ==
    /\ HasToken(field_args, "ge=") => v >= FieldBound(field_args, "ge=")
    /\ HasToken(field_args, "gt=") => v > FieldBound(field_args, "gt=")
    /\ HasToken(field_args, "le=") => v <= FieldBound(field_args, "le=")
    /\ HasToken(field_args, "lt=") => v < FieldBound(field_args, "lt=")

\* the values supplied to a generated model: the bounds and a step beyond them
SuppliedValues == (0 - 1)..(MaxNum + 1)

\* the fields of a numeric type that declare both min and max
BoundedNumericFields ==
    {f \in MappedFields :
        /\ Get(f[2], "type").s \in RANGE_TYPES
        /\ Has(f[2], "min") /\ Has(f[2], "max")}

(***************************************************************************)
(* C18: for every numeric field that declares min = m and max = M the      *)
(* Python mapper emits the inclusive bounds ge=m and le=M, so the          *)
(* generated model accepts a supplied value v if and only if m <= v <= M:  *)
(* m and M themselves are accepted, values below m or above M rejected.    *)
(***************************************************************************)
C18_InclusiveBounds ==
    program = "python" =>
        \A f \in BoundedNumericFields : \A v \in SuppliedValues :
            PydanticAccepts(f[3].field_args, v)
                <=> (Get(f[2], "min").n <= v /\ v <= Get(f[2], "max").n)

\* the Python mapper has mapped a float field with min 0 and max 1
C18_Witness ==
    /\ program = "python"
    /\ \E f \in BoundedNumericFields :
          /\ Get(f[2], "type").s = K("float")
          /\ Get(f[2], "min") = VInt(0) /\ Get(f[2], "max") = VInt(1)
          /\ HasToken(f[3].field_args, "ge=") /\ HasToken(f[3].field_args, "le=")
          /\ PydanticAccepts(f[3].field_args, 0)
          /\ ~PydanticAccepts(f[3].field_args, 2)

\* the first argument of Field(..), which pydantic takes as the default of the
\* field: None makes the field optional, ... makes it required
FieldDefault(field_args) == Between(<<"Field(">> \o field_args, "Field(", {", "})

\* what a model constructed with no arguments holds in a field: its default, which
\* pydantic does not validate; nothing when the field is required
OmittedReads(field_args) ==
    IF FieldDefault(field_args) = <<"...">> THEN <<"ValidationError">>
    ELSE FieldDefault(field_args)

(***************************************************************************)
(* C19: every field of every generated Python node and edge model is       *)
(* optional with default None: a model constructed with no arguments reads *)
(* None in every field, whatever min, max or enum the field declares.      *)
(***************************************************************************)
C19_FieldsOptional ==
    program = "python" =>
        \A f \in MappedFields : OmittedReads(f[3].field_args) = <<"None">>

\* the Python mapper has mapped a field that declares a lower bound
C19_Witness ==
    /\ program = "python"
    /\ \E f \in MappedFields :
          /\ Has(f[2], "min")
          /\ HasToken(f[3].field_args, "ge=")
          /\ OmittedReads(f[3].field_args) = <<"None">>

\* entity_map.py has been written
EntityMapWritten == HasToken(files, "python/pentagi_taxonomy/entity_map.py")

\* the names of a section of the validated schema
SectionNames(section) ==
    {GetOr(schema, section, VMap(<<>>)).items[i][1] :
        i \in 1..Len(GetOr(schema, section, VMap(<<>>)).items)}

\* the relationships of the validated schema
SchemaRelationships ==
    LET relationships == GetOr(schema, "relationships", VList(<<>>)) IN
    IF Iterable(relationships) THEN PyIter(relationships) ELSE <<>>

\* the elements of a list of the generated code
ListElements(list) == {list[j] : j \in 1..Len(list)}

\* ENTITY_TYPES and EDGE_TYPES have one entry per node and per edge, and every
\* name of EDGE_TYPE_MAP is a key of one of them
C20_NamesMirrored ==
    EntityMapWritten =>
        /\ DictKeys(entity_map.ENTITY_TYPES) = SectionNames("nodes")
        /\ Len(entity_map.ENTITY_TYPES) = Cardinality(SectionNames("nodes"))
        /\ DictKeys(entity_map.EDGE_TYPES) = SectionNames("edges")
        /\ Len(entity_map.EDGE_TYPES) = Cardinality(SectionNames("edges"))
        /\ \A key \in DictKeys(entity_map.EDGE_TYPE_MAP) :
              /\ key[1] \in DictKeys(entity_map.ENTITY_TYPES)
              /\ key[2] \in DictKeys(entity_map.ENTITY_TYPES)
              /\ ListElements(DictGet(entity_map.EDGE_TYPE_MAP, key))
                    \subseteq DictKeys(entity_map.EDGE_TYPES)

(***************************************************************************)
(* C20: for every validated schema the generated entity maps mirror it.    *)
(* ENTITY_TYPES has one entry per node name, EDGE_TYPES one per edge name; *)
(* for every relationship of the schema the key (source, target) is in     *)
(* EDGE_TYPE_MAP and its list has every edge the relationship lists, also  *)
(* when several relationships share a source and target; every name in     *)
(* EDGE_TYPE_MAP is a key of ENTITY_TYPES or of EDGE_TYPES.                *)
(***************************************************************************)
C20_EntityMapsMirrorSchema ==
    EntityMapWritten =>
        /\ C20_NamesMirrored
        /\ \A i \in 1..Len(SchemaRelationships) :
              LET rel == SchemaRelationships[i]
                  key == <<Get(rel, "source").s, Get(rel, "target").s>> IN
              /\ key \in DictKeys(entity_map.EDGE_TYPE_MAP)
              /\ \A j \in 1..Len(Get(rel, "edges").items) :
                    Get(rel, "edges").items[j].s
                        \in ListElements(DictGet(entity_map.EDGE_TYPE_MAP, key))

\* the built-in validators in the struct tag of a field
BuiltinValidators(out) ==
    {token \in {"ipv4", "email", "url"} : HasToken(out.struct_tag, token)}

\* the three shapes of pattern the Go mapper knows
IsIPv4Pattern(regex) == \E i \in 1..Len(regex) : regex[i] \in ipv4_patterns
ContainsEmail(regex) == \E i \in 1..Len(regex) : regex[i] \in {"email", "Email", "EMAIL"}
StartsWithHttp(regex) == regex # <<>> /\ regex[1] = "^https?://"

\* the built-in validator of a pattern: the first shape that matches decides
ExpectedValidators(regex) ==
    IF IsIPv4Pattern(regex) THEN {"ipv4"}
    ELSE IF ContainsEmail(regex) THEN {"email"}
    ELSE IF StartsWithHttp(regex) THEN {"url"}
    ELSE {}

\* the mapped fields that declare a regex
RegexFields == {f \in MappedFields : Has(f[2], "regex")}

(***************************************************************************)
(* C21: in the Go mapper a field's regex yields at most one built-in       *)
(* validator, chosen by the first matching rule in the order IPv4 pattern, *)
(* pattern containing "email" in any case, pattern starting with           *)
(* ^https?://; a regex that matches none contributes no validation tag at  *)
(* all; a regex on a field that also declares enum is ignored, and the     *)
(* TypeScript mapper likewise emits only the enum when both are declared.  *)
(***************************************************************************)
C21_RegexBuiltins ==
    \A f \in RegexFields :
        /\ program = "go" =>
              /\ Cardinality(BuiltinValidators(f[3])) <= 1
              /\ BuiltinValidators(f[3]) =
                    IF Has(f[2], "enum") THEN {} ELSE ExpectedValidators(Get(f[2], "regex").s)
              /\ (BuiltinValidators(f[3]) = {} /\ Declared(f[2]) = {"regex"}) =>
                    ~HasToken(f[3].struct_tag, "validate:\"")
        /\ (program = "typescript" /\ Has(f[2], "enum")) =>
              /\ HasToken(f[3].zod_schema, "z.enum([")
              /\ ~HasToken(f[3].zod_schema, "z.string().regex(/")

\* the Go mapper has mapped a pattern that starts with ^https?:// and contains
\* "email": the tag has email, and no url
C21_Witness ==
    /\ program = "go"
    /\ \E f \in RegexFields :
          /\ ~Has(f[2], "enum")
          /\ Get(f[2], "regex") = VStr(<<"^https?://", "email">>)
          /\ BuiltinValidators(f[3]) = {"email"}

\* the running generator's mapper has raised: its traceback is on standard error
MapperFailed ==
    /\ result = Ok
    /\ pc = "exited"
    /\ exit_code = 1
    /\ stderr # <<>>
    /\ stderr[Len(stderr)].exc \in {"TypeError", "AttributeError"}

(***************************************************************************)
(* C22: every schema that validate_schema accepts can be processed by all  *)
(* three mappers without failure: prepare_nodes_data and                   *)
(* prepare_edges_data of the running generator complete for it, whatever   *)
(* the kinds of the values of an accepted enum list, regex, min, max and   *)
(* description, and the run does not end in a mapper's exception.          *)
(***************************************************************************)
C22_MappersComplete ==
    result = Ok =>
        /\ prepare_nodes_data(program, schema).exc = "none"
        /\ prepare_edges_data(program, schema).exc = "none"
        /\ ~MapperFailed

\* the field mappers of Python and TypeScript complete for the accepted documents
\* (all of which name their nodes, edges and fields with strings)
C22_PythonAndTypeScriptComplete ==
    (result = Ok /\ program # "go") =>
        /\ prepare_nodes_data(program, schema).exc = "none"
        /\ prepare_edges_data(program, schema).exc = "none"
        /\ ~MapperFailed

\* the generated class names of the edges, in the order of the schema
ClassNames == [i \in 1..Len(edges_data) |-> edges_data[i][2].class_name]

(***************************************************************************)
(* C23: the conversion of edge names to class names (split on "_",         *)
(* capitalize each word, concatenate) is injective on the edge names of an *)
(* accepted schema: two distinct edge names never get the same class name, *)
(* so no generated edge class overwrites another.                          *)
(***************************************************************************)
C23_ClassNamesInjective ==
    \A i, j \in 1..Len(ClassNames) :
        edges_data[i][1] # edges_data[j][1] => ClassNames[i] # ClassNames[j]

\* edge names that differ in more than the case of their letters and their
\* underscores get different class names
C23_InjectiveUpToCase ==
    \A i, j \in 1..Len(ClassNames) :
        ClassNames[i] = ClassNames[j] =>
            LET plain(name) ==
                    SelectSeq([k \in 1..Len(name) |-> Lower(name[k])],
                              LAMBDA c : c # "_") IN
            plain(edges_data[i][1]) = plain(edges_data[j][1])
====
